---------------------------- MODULE Spec2Model ----------------------------
(***************************************************************************)
(* Candidate-job compatibility scoring and ranking engine (logiscareers).  *)
(*                                                                         *)
(* The module models, from the Python sources,                             *)
(*   - MLEngineService.evaluate_candidate and the components it drives     *)
(*     (data completeness validator, comprehensive scorer, insight         *)
(*     generator, growth analyzer, smart recommendation engine)  : Spec    *)
(*   - SmartRecommendationEngine._calculate_confidence_interval : SpecCI   *)
(*   - SkillMatcher._get_skill_embedding under concurrency  : SpecCache    *)
(*   - CandidateRanker.rank_candidates                       : SpecRank    *)
(*                                                                         *)
(* Python values are modelled as tagged records:                           *)
(*   [k |-> "absent"]           the key is not in the dict                 *)
(*   [k |-> "none"]             None                                       *)
(*   [k |-> "str",  s |-> ...]  a string                                   *)
(*   [k |-> "num",  n |-> ...]  an int/float (whole numbers here)          *)
(*   [k |-> "list", items |-> <<...>>]                                     *)
(*   [k |-> "dict", d |-> [key |-> value]]                                 *)
(* Decimal quantities are kept exact as scaled integers (tenths,           *)
(* hundredths or thousandths, stated at each definition).                  *)
(***************************************************************************)
EXTENDS Integers, Sequences, FiniteSets, TLC

VARIABLES
    \* ---- MLEngineService.evaluate_candidate ----
    engine_available,     \* MLEngineService._engine_available
    pc,                   \* position inside evaluate_candidate
    candidate_data,       \* argument: candidate dict
    job_data,             \* argument: job dict
    validation,           \* result of STEP 1 (validate_candidate_data / validate_job_data)
    rejection_result,     \* rejection_engine.evaluate(job, candidate)
    comprehensive_result, \* comprehensive_scorer.assess(...)
    scored,               \* locals computed after assess: section_scores, adjustments, adjusted_score ...
    insights_dict,        \* local insights_dict
    growth_data,          \* local growth_data
    smart_recommendation, \* local smart_recommendation
    result,               \* the dict returned to the caller
    failed,               \* which of the three enhancement steps raised in this call
    clock,                \* datetime.now(), as a counter
    prev,                 \* result of the previous call on the same input
    components,           \* how the components that are not part of these sources answer this input
    \* ---- SmartRecommendationEngine._calculate_confidence_interval ----
    ci_in, ci_out,
    \* ---- SkillMatcher._get_skill_embedding ----
    embedding_model,      \* SkillMatcher.embedding_model: "loaded" or "none"
    cache,                \* _skill_embeddings_cache: insertion-ordered keys
    threads,              \* per thread: position in _get_skill_embedding and its key
    next_key,             \* smallest skill name never requested so far
    \* ---- CandidateRanker.rank_candidates ----
    candidates, ranking_criteria, ranked,
    \* ---- SkillMatcher.match_skills and _match_single_skill ----
    matcher, match_in, match_out,
    \* ---- batch_evaluate: the applications table, request.data, the response ----
    applications_table, request_data, response,
    \* ---- generate_recommendation called directly: its arguments and its outcome ----
    rec_in, rec_out,
    \* ---- validate_candidate_data called directly ----
    val_in, val_out,
    \* ---- CandidateRanker.generate_comparison_matrix ----
    comparison,
    \* ---- GrowthPotentialAnalyzer.analyze called directly ----
    growth_in, growth_out

vars == <<engine_available, pc, candidate_data, job_data, validation,
          rejection_result, comprehensive_result, scored, insights_dict,
          growth_data, smart_recommendation, result, failed, clock, prev,
          components, ci_in, ci_out, embedding_model, cache, threads, next_key,
          candidates, ranking_criteria, ranked,
          matcher, match_in, match_out,
          applications_table, request_data, response,
          rec_in, rec_out,
          val_in, val_out,
          comparison,
          growth_in, growth_out>>

eval_vars == <<engine_available, pc, candidate_data, job_data, validation,
               rejection_result, comprehensive_result, scored, insights_dict,
               growth_data, smart_recommendation, result, failed, clock, prev,
               components>>
ci_vars    == <<ci_in, ci_out>>
cache_vars == <<embedding_model, cache, threads, next_key>>
rank_vars  == <<candidates, ranking_criteria, ranked>>
match_vars == <<matcher, match_in, match_out>>
batch_vars == <<applications_table, request_data, response>>
rec_vars == <<rec_in, rec_out>>
val_vars == <<val_in, val_out>>
matrix_vars == <<comparison>>
growth_vars == <<growth_in, growth_out>>

(***************************************************************************)
(* Bounds of the model                                                     *)
(***************************************************************************)
MaxClock == 1           \* distinct instants datetime.now() can return
MaxThreads == 2         \* threads calling _get_skill_embedding at once
\* the cache limit of skill_matcher.py (10000 there), scaled down
MAX_EMBEDDING_CACHE_SIZE == 10
MaxKeys == 12           \* distinct canonical skill names ever requested
MaxCandidateSkills == 2  \* skills in a candidate's skill list
MaxApplications == 2
MaxRedFlags == 3
MaxCandidates == 3      \* length of the list given to rank_candidates

(***************************************************************************)
(* Python values                                                           *)
(***************************************************************************)
Absent == [k |-> "absent"]
None == [k |-> "none"]
Str(s) == [k |-> "str", s |-> s]
Num(n) == [k |-> "num", n |-> n]
List(items) == [k |-> "list", items |-> items]
Dict(d) == [k |-> "dict", d |-> d]

\* dict.get(key): a missing key and a None value both give None
Get(data, key) ==
    IF key \in DOMAIN data /\ data[key].k # "absent" THEN data[key] ELSE None

\* dict.get(key, default): the default only replaces a missing key
GetDefault(data, key, default) ==
    IF key \in DOMAIN data /\ data[key].k # "absent" THEN data[key] ELSE default

\* str.strip() of the strings used as inputs: these are the whitespace-only ones
BlankStrings == {"", " "}

\* len(text.strip()) of the CV texts used as inputs (only "is it < 100" is read)
CvShortTexts == {"CV_SHORT"}

\* Python truthiness (bool(x))
Truthy(v) ==
    CASE v.k = "absent" -> FALSE
      [] v.k = "none" -> FALSE
      [] v.k = "str" -> v.s # ""
      [] v.k = "num" -> v.n # 0
      [] v.k = "list" -> Len(v.items) > 0
      [] v.k = "dict" -> DOMAIN v.d # {}

\* len(x): defined for str, list and dict; raises TypeError otherwise
LenRaises(v) == v.k \in {"none", "num"}

Max(a, b) == IF a >= b THEN a ELSE b
Min(a, b) == IF a <= b THEN a ELSE b

\* round(p / q) of Python 3 for p >= 0, q > 0: nearest integer, ties to even
RoundDiv(p, q) ==
    LET f == p \div q
        r == p % q
    IN  IF 2 * r < q THEN f
        ELSE IF 2 * r > q THEN f + 1
        ELSE IF f % 2 = 0 THEN f ELSE f + 1

RECURSIVE SumSeq(_)
SumSeq(s) == IF s = <<>> THEN 0 ELSE Head(s) + SumSeq(Tail(s))

Range(s) == {s[i] : i \in DOMAIN s}

(***************************************************************************)
(* DataCompletenessValidator                                               *)
(***************************************************************************)
\* DataCriticality values (the star glyphs of the source written in ASCII)
CRITICAL == "**"
IMPORTANT == "*"

\* DataRequirement; field_path is kept already split on '.'
Req(path, name, crit, impact) ==
    [field_path |-> path, field_name |-> name, criticality |-> crit,
     impact_if_missing |-> impact]

CANDIDATE_REQUIREMENTS == <<
    Req(<<"email">>, "Email Address",
        CRITICAL, "Cannot contact candidate for interviews"),
    Req(<<"mobile_number">>, "Mobile Number",
        CRITICAL, "Cannot reach candidate quickly"),
    Req(<<"current_city">>, "Current Location",
        CRITICAL, "Cannot assess relocation needs and costs"),
    Req(<<"employment_history">>, "Detailed Work History (At least 1 entry)",
        IMPORTANT, "Reduces career trajectory analysis accuracy by 60%"),
    Req(<<"skills">>, "Professional/Technical Skills (At least 3)",
        IMPORTANT, "Reduces skills match accuracy by 70%"),
    Req(<<"education_details">>, "Education History (At least 1 entry)",
        IMPORTANT, "Reduces education match accuracy by 55%"),
    Req(<<"expected_salary">>, "Expected Salary",
        IMPORTANT, "Reduces salary match accuracy by 50%"),
    Req(<<"cv_text">>, "CV/Resume Content",
        IMPORTANT, "Reduced CV analysis depth - 40% accuracy loss in CV quality scoring"),
    Req(<<"employment_history", "job_title">>, "Job Titles in Work History",
        IMPORTANT, "Reduces career progression analysis accuracy by 70%"),
    Req(<<"employment_history", "company_name">>, "Company Names in Work History",
        IMPORTANT, "Cannot assess employer quality and stability"),
    Req(<<"employment_history", "duration">>, "Employment Dates/Duration",
        IMPORTANT, "Cannot detect employment gaps or job hopping - 50% red flag detection accuracy loss"),
    Req(<<"employment_history", "responsibilities">>, "Job Responsibilities/Achievements",
        IMPORTANT, "Reduces role fit accuracy by 40%"),
    Req(<<"gcc_experience_years">>, "GCC Work Experience",
        IMPORTANT, "Cannot assess GCC market familiarity - 30% cultural fit accuracy loss"),
    Req(<<"availability_to_join_days">>, "Notice Period/Availability",
        IMPORTANT, "Cannot assess hiring timeline fit"),
    Req(<<"it_skill_certifications">>, "Professional Certifications",
        IMPORTANT, "Reduces skill currency accuracy by 20%, learning potential accuracy by 30%"),
    Req(<<"current_salary">>, "Current Salary",
        IMPORTANT, "Reduces salary assessment accuracy by 30%"),
    Req(<<"professional_summary">>, "Professional Summary/Profile",
        IMPORTANT, "Reduces overall assessment depth by 15%")
>>

JOB_REQUIREMENTS == <<
    Req(<<"title">>, "Job Title",
        CRITICAL, "Cannot perform any assessment"),
    Req(<<"job_description">>, "Job Description",
        CRITICAL, "Cannot perform detailed matching - 50% overall accuracy loss"),
    Req(<<"min_experience_years">>, "Minimum Experience Required",
        IMPORTANT, "Reduces experience match accuracy by 50%"),
    Req(<<"max_experience_years">>, "Maximum Experience Required",
        IMPORTANT, "Reduces overqualification detection accuracy by 40%"),
    Req(<<"required_skills">>, "Required/Must-Have Skills (At least 3)",
        IMPORTANT, "Reduces skills match accuracy by 60%"),
    Req(<<"required_education">>, "Minimum Education Required",
        IMPORTANT, "Reduces education match accuracy by 50%"),
    Req(<<"salary_max">>, "Maximum Salary Budget",
        IMPORTANT, "Reduces salary match accuracy by 50%"),
    Req(<<"city">>, "Job Location",
        IMPORTANT, "Reduces location fit accuracy by 40%"),
    Req(<<"designation">>, "Job Designation/Level",
        IMPORTANT, "Reduces seniority match accuracy by 40%"),
    Req(<<"preferred_skills">>, "Preferred/Nice-to-Have Skills",
        IMPORTANT, "Reduces skills assessment depth by 30%"),
    Req(<<"min_gcc_experience_years">>, "Minimum GCC Experience Required",
        IMPORTANT, "Cannot assess GCC experience requirement"),
    Req(<<"salary_min">>, "Minimum Salary Range",
        IMPORTANT, "Reduces salary assessment accuracy by 20%"),
    Req(<<"responsibilities">>, "Key Responsibilities",
        IMPORTANT, "Reduces role fit accuracy by 25%")
>>

\* _check_field_presence, the final "meaningful data" test on the value reached
MeaningfulData(current) ==
    CASE current.k = "str" -> current.s \notin BlankStrings
      [] current.k = "list" -> Len(current.items) > 0
      [] current.k = "dict" -> DOMAIN current.d # {}
      [] current.k = "num" -> TRUE
      [] OTHER -> current.k \notin {"none", "absent"}

\* _check_field_presence: the loop over parts, at (1-based) index i with the
\* value `current`; a list stops the walk: it is descended only when parts
\* remain after index i.
RECURSIVE CheckFrom(_, _, _)
CheckFrom(current, parts, i) ==
    IF i > Len(parts) THEN MeaningfulData(current)
    ELSE IF current.k = "dict"
    THEN LET nxt == Get(current.d, parts[i])
         IN  IF nxt.k = "none" THEN FALSE ELSE CheckFrom(nxt, parts, i + 1)
    ELSE IF current.k = "list"
    THEN IF Len(current.items) = 0 THEN FALSE
         ELSE IF i < Len(parts)
         THEN \E n \in DOMAIN current.items :
                  /\ current.items[n].k = "dict"
                  /\ CheckFrom(Dict([temp |-> current.items[n]]),
                               <<"temp">> \o SubSeq(parts, i, Len(parts)), 1)
         ELSE TRUE
    ELSE FALSE

_check_field_presence(data, field_path) == CheckFrom(Dict(data), field_path, 1)

\* the is_present decision of validate_candidate_data for one requirement
CandidateFieldPresent(data, req) ==
    LET present0 == _check_field_presence(data, req.field_path)
        skills_list == GetDefault(data, "skills", List(<<>>))
        present1 == IF req.field_path = <<"skills">> /\ present0
                       /\ skills_list.k = "list" /\ Len(skills_list.items) < 3
                    THEN FALSE ELSE present0
        value == Get(data, req.field_path[1])
    IN  IF req.field_path \in {<<"expected_salary">>, <<"total_experience_years">>,
                               <<"gcc_experience_years">>}
        THEN value.k = "num" /\ value.n >= 0
        ELSE present1

\* f"{req.criticality.value} {req.field_name}: {req.impact_if_missing}"
MissingMessage(req) ==
    req.criticality \o " " \o req.field_name \o ": " \o req.impact_if_missing

\* the messages of the requirements of one criticality that are not present, in table order
MissingOf(reqs, crit, Present(_)) ==
    LET Missing(req) == req.criticality = crit /\ ~Present(req)
        missing == SelectSeq(reqs, Missing)
    IN  [n \in DOMAIN missing |-> MissingMessage(missing[n])]

\* completeness_score = ((total - missing) / total) * 100, kept as the exact
\* fraction num / den
CompletenessScore(total, missing) == [num |-> (total - missing) * 100, den |-> total]

\* round(score, 1) of a completeness score, in tenths of a percent
RoundedCompleteness(score) == RoundDiv(score.num * 10, score.den)

validate_candidate_data(data) ==
    LET P(req) == CandidateFieldPresent(data, req)
        critical_missing == MissingOf(CANDIDATE_REQUIREMENTS, CRITICAL, P)
        important_missing == MissingOf(CANDIDATE_REQUIREMENTS, IMPORTANT, P)
    IN  [is_valid |-> Len(critical_missing) = 0,
         critical_missing |-> critical_missing,
         important_missing |-> important_missing,
         completeness_score |->
             CompletenessScore(Len(CANDIDATE_REQUIREMENTS),
                               Len(critical_missing) + Len(important_missing))]

validate_job_data(data) ==
    LET P(req) == _check_field_presence(data, req.field_path)
        critical_missing == MissingOf(JOB_REQUIREMENTS, CRITICAL, P)
        important_missing == MissingOf(JOB_REQUIREMENTS, IMPORTANT, P)
    IN  [is_valid |-> Len(critical_missing) = 0,
         critical_missing |-> critical_missing,
         important_missing |-> important_missing,
         completeness_score |->
             CompletenessScore(Len(JOB_REQUIREMENTS),
                               Len(critical_missing) + Len(important_missing))]

\* _estimate_assessment_quality: (cand_score + job_score) / 2 >= t, on the fractions
AvgAtLeast(cand_score, job_score, t) ==
    cand_score.num * job_score.den + job_score.num * cand_score.den
        >= 2 * t * cand_score.den * job_score.den

_estimate_assessment_quality(cand_score, job_score, cand_critical_count, job_critical_count) ==
    IF cand_critical_count > 0 \/ job_critical_count > 0
    THEN [quality |-> "UNACCEPTABLE", confidence |-> "0%", accuracy |-> "0%"]
    ELSE IF AvgAtLeast(cand_score, job_score, 90)
    THEN [quality |-> "EXCELLENT", confidence |-> "90-95%", accuracy |-> "90-95%"]
    ELSE IF AvgAtLeast(cand_score, job_score, 75)
    THEN [quality |-> "GOOD", confidence |-> "75-85%", accuracy |-> "75-85%"]
    ELSE IF AvgAtLeast(cand_score, job_score, 60)
    THEN [quality |-> "FAIR", confidence |-> "60-75%", accuracy |-> "60-75%"]
    ELSE [quality |-> "POOR", confidence |-> "40-60%", accuracy |-> "40-60%"]

(***************************************************************************)
(* Inputs of evaluate_candidate: flat dicts in the shape produced by       *)
(* Candidate.to_ml_engine_format / Job.to_ml_engine_format, with the       *)
(* fields the engine reads varied over missing, None, empty and filled     *)
(* values.                                                                 *)
(***************************************************************************)
WorkEntry ==
    Dict([company_name |-> Str("Gulf Freight"), job_title |-> Str("Logistics Manager"),
          responsibilities |-> Str("Managed warehouse operations"),
          start_date |-> Str("2019-01"), end_date |-> Str("Present")])

EducationEntry ==
    Dict([education_level |-> Str("Bachelors"), field_of_study |-> Str("Logistics"),
          university |-> Str("UoD")])

ThreeSkills == List(<<Str("mysql"), Str("python"), Str("excel")>>)

EightItSkills ==
    List(<<Str("aws"), Str("docker"), Str("kubernetes"), Str("sap"),
           Str("oracle"), Str("tableau"), Str("power bi"), Str("python")>>)

BaseCandidate ==
    [email |-> Str("candidate@example.com"),
     mobile_number |-> Str("+971500000000"),
     current_city |-> Str("Dubai"),
     current_country |-> Str("UAE"),
     nationality |-> Str("Indian"),
     visa_status |-> Str("Employment Visa"),
     gender |-> Str("Male"),
     driving_license |-> Str("Yes"),
     availability_to_join_days |-> Num(30),
     current_salary |-> Num(10000),
     expected_salary |-> Num(12000),
     total_experience_years |-> Num(5),
     gcc_experience_years |-> Num(3),
     skills |-> ThreeSkills,
     professional_skills |-> Absent,
     it_skills |-> Absent,
     it_skills_certifications |-> Absent,
     it_skill_certifications |-> Absent,
     education_level |-> Str("Masters"),
     education_details |-> List(<<EducationEntry>>),
     employment_history |-> List(<<WorkEntry>>),
     professional_summary |-> Absent,
     cv_text |-> Str("CV_LONG")]

BaseJob ==
    [title |-> Str("Logistics Manager"),
     job_description |-> Str("Manage logistics operations"),
     country |-> Str("UAE"),
     city |-> Str("Dubai"),
     industry |-> Str("Logistics"),
     functional_area |-> Str("Operations"),
     designation |-> Str("Manager"),
     min_experience_years |-> Num(3),
     max_experience_years |-> Num(7),
     require_gcc_experience |-> Absent,
     salary_min |-> Num(8000),
     salary_max |-> Num(15000),
     required_skills |-> List(<<Str("sql"), Str("python"), Str("excel")>>),
     preferred_skills |-> List(<<>>),
     required_education |-> Str("Bachelors"),
     preferred_nationality |-> List(<<>>),
     gender_preference |-> Str("No Preference"),
     visa_requirement |-> None,
     responsibilities |-> Absent,
     min_gcc_experience_years |-> Absent]

\* candidates with every critical field filled: the scoring attributes vary
CompleteCandidates ==
    { [BaseCandidate EXCEPT !.skills = sk, !.it_skills = it,
                            !.total_experience_years = ex, !.expected_salary = sal,
                            !.cv_text = cv, !.availability_to_join_days = av,
                            !.education_level = edu] :
        sk \in {Absent, List(<<>>), ThreeSkills},
        it \in {Absent, EightItSkills},
        ex \in {Num(0), Num(5)},
        sal \in {Num(12000), Num(20000)},
        cv \in {Absent, Str("CV_SHORT"), Str("CV_LONG")},
        av \in {None, Num(30)},
        edu \in {None, Str("Masters")} }

CompleteJobs ==
    { [BaseJob EXCEPT !.required_skills = rs, !.preferred_skills = ps] :
        rs \in {List(<<>>), List(<<Str("sql"), Str("python"), Str("excel")>>)},
        ps \in {List(<<>>), List(<<Str("forklift"), Str("customs")>>)} }

\* candidates and jobs whose critical fields are missing, None, empty or
\* blank in every combination, with optional fields filled, missing or None
CriticalVariantCandidates ==
    { [BaseCandidate EXCEPT !.email = e, !.mobile_number = m, !.current_city = c,
                            !.skills = sk, !.cv_text = cv] :
        e \in {Absent, Str(""), Str("candidate@example.com")},
        m \in {None, Str("+971500000000")},
        c \in {Str(" "), Str("Dubai")},
        sk \in {None, ThreeSkills},
        cv \in {Absent, None} }

CriticalVariantJobs ==
    { [BaseJob EXCEPT !.title = t, !.job_description = d] :
        t \in {Absent, Str("Logistics Manager")},
        d \in {Str(""), Str("Manage logistics operations")} }

EvaluationInputs ==
    (CompleteCandidates \X CompleteJobs)
        \cup (CriticalVariantCandidates \X CriticalVariantJobs)

(***************************************************************************)
(* Strings: str.lower() and the substring test `a in b`, tabulated for the *)
(* strings that occur in the inputs                                        *)
(***************************************************************************)
Lower(s) ==
    CASE s = "UAE" -> "uae"
      [] s = "Dubai" -> "dubai"
      [] s = "Indian" -> "indian"
      [] s = "Male" -> "male"
      [] s = "No Preference" -> "no preference"
      [] s = "Employment Visa" -> "employment visa"
      [] s = "Logistics" -> "logistics"
      [] s = "Operations" -> "operations"
      [] s = "Manager" -> "manager"
      [] s = "Logistics Manager" -> "logistics manager"
      [] s = "Gulf Freight" -> "gulf freight"
      [] s = "Bachelors" -> "bachelors"
      [] s = "Masters" -> "masters"
      [] s = "Manage logistics operations" -> "manage logistics operations"
      [] OTHER -> s

\* the pairs <<a, b>>, a # b and a not empty, of lower-cased input strings with `a in b`
ProperSubstrings ==
    {<<"sql", "mysql">>, <<"manager", "logistics manager">>,
     <<"logistics", "logistics manager">>, <<"bachelor", "bachelors">>,
     <<"master", "masters">>,
     <<"logistics", "manage logistics operations logistics manager">>,
     <<"manager", "manage logistics operations logistics manager">>,
     <<"operations", "manage logistics operations logistics manager">>}

\* (lower(a + ' ' + b) is computed as lower(a) + ' ' + lower(b))
\* Python's `a in b` for strings
IsSubstring(a, b) == a = "" \/ a = b \/ <<a, b>> \in ProperSubstrings

\* len(s) for the strings of the inputs; the ones not listed are longer
\* than every length the code compares with, and 8 stands for their length
StrLen(s) ==
    CASE s = "" -> 0
      [] s = " " -> 1
      [] s \in {"sql", "aws", "sap", "UoD", "UAE", "uae"} -> 3
      [] OTHER -> 8

\* Python's `a or b`
Or(a, b) == IF Truthy(a) THEN a ELSE b

(***************************************************************************)
(* ComprehensiveScorer                                                     *)
(***************************************************************************)
\* FieldAssessment: score 0-100, weight in tenths, and whether
\* `candidate_value and candidate_value != 'Not specified'` holds
Field(name, score, weight, has_value) ==
    [field_name |-> name, score |-> score, weight |-> weight, has_value |-> has_value]

\* `value or 'Not specified'` used as candidate_value, then tested by _calculate_confidence
Specified(v) == Truthy(v) /\ v # Str("Not specified")

\* _calculate_section_score: int(round(sum(score * weight) / sum(weight)))
_calculate_section_score(fields) ==
    LET total_weighted == SumSeq([n \in DOMAIN fields |-> fields[n].score * fields[n].weight])
        total_weight == SumSeq([n \in DOMAIN fields |-> fields[n].weight])
    IN  IF total_weight > 0 THEN RoundDiv(total_weighted, total_weight) ELSE 0

_get_match_level(score) ==
    IF score >= 85 THEN "excellent"
    ELSE IF score >= 70 THEN "good"
    ELSE IF score >= 50 THEN "partial"
    ELSE "poor"

\* SECTION_WEIGHTS, in hundredths
SECTION_WEIGHTS ==
    [personal_details |-> 10, experience |-> 25, education |-> 15,
     skills |-> 25, salary |-> 10, cv_analysis |-> 15]

Section(name, fields) ==
    LET score == _calculate_section_score(fields)
    IN  [section_name |-> name, fields |-> fields, total_score |-> score,
         match_level |-> _get_match_level(score), weight |-> SECTION_WEIGHTS[name]]

\* ---- _assess_personal_details ----
NationalityScore(c, j) ==
    LET nationality == GetDefault(c, "nationality", Str(""))
        preferred == GetDefault(j, "preferred_nationality", List(<<>>))
    IN  IF ~Truthy(preferred) \/ ~Truthy(nationality) THEN 100
        ELSE IF \E n \in DOMAIN preferred.items : preferred.items[n] = nationality THEN 100
        ELSE 70

CandidateLocation(c) == Or(Get(c, "current_country"), GetDefault(c, "current_city", Str("")))
JobLocation(j) == Or(Get(j, "country"), GetDefault(j, "city", Str("")))

\* candidate_location.lower() / job_location.lower() on a value that is not a string
LocationRaises(c, j) ==
    LET preferred_locations == GetDefault(j, "preferred_locations", List(<<>>))
    IN  /\ Truthy(JobLocation(j)) \/ Truthy(preferred_locations)
        /\ CandidateLocation(c).k # "str" \/ JobLocation(j).k # "str"

LocationScore(c, j) ==
    LET candidate_location == CandidateLocation(c)
        job_location == JobLocation(j)
        preferred_locations == GetDefault(j, "preferred_locations", List(<<>>))
    IN  IF ~Truthy(job_location) /\ ~Truthy(preferred_locations) THEN 100
        ELSE IF \/ IsSubstring(Lower(candidate_location.s), Lower(job_location.s))
                \/ IsSubstring(Lower(job_location.s), Lower(candidate_location.s))
        THEN 100
        ELSE IF \E n \in DOMAIN preferred_locations.items :
                    IsSubstring(Lower(preferred_locations.items[n].s), Lower(candidate_location.s))
        THEN 90
        ELSE 60

VisaScore(c, j) ==
    LET visa_status == GetDefault(c, "visa_status", Str(""))
        visa_requirement == Get(j, "visa_requirement")
    IN  IF ~Truthy(visa_requirement) THEN 100
        ELSE IF Truthy(visa_status) /\ IsSubstring("valid", Lower(visa_status.s)) THEN 100
        ELSE IF Truthy(visa_status) THEN 80
        ELSE 60

\* `availability_days <= 7` with availability_days None raises TypeError
AvailabilityRaises(c) == GetDefault(c, "availability_to_join_days", Num(30)).k # "num"

AvailabilityScore(c) ==
    LET availability_days == GetDefault(c, "availability_to_join_days", Num(30)).n
    IN  IF availability_days <= 7 THEN 100
        ELSE IF availability_days <= 30 THEN 90
        ELSE IF availability_days <= 60 THEN 75
        ELSE IF availability_days <= 90 THEN 60
        ELSE 40

GenderScore(c, j) ==
    LET candidate_gender == GetDefault(c, "gender", Str(""))
        gender_pref == GetDefault(j, "gender_preference", Str("No Preference"))
    IN  IF gender_pref = Str("No Preference") \/ ~Truthy(gender_pref) THEN 100
        ELSE IF Truthy(candidate_gender) /\ Lower(candidate_gender.s) = Lower(gender_pref.s) THEN 100
        ELSE IF ~Truthy(candidate_gender) THEN 80
        ELSE 50

LicenseScore(c) == IF Get(c, "driving_license") = Str("Yes") THEN 100 ELSE 70

PersonalDetailsRaises(c, j) == LocationRaises(c, j) \/ AvailabilityRaises(c)

_assess_personal_details(c, j) ==
    Section("personal_details",
        <<Field("nationality", NationalityScore(c, j), 10,
                Specified(GetDefault(c, "nationality", Str("")))),
          Field("location", LocationScore(c, j), 10, Specified(CandidateLocation(c))),
          Field("visa_status", VisaScore(c, j), 10,
                Specified(GetDefault(c, "visa_status", Str("")))),
          Field("availability", AvailabilityScore(c), 10, TRUE),
          Field("gender", GenderScore(c, j), 10, Specified(GetDefault(c, "gender", Str("")))),
          Field("driving_license", LicenseScore(c), 10, TRUE)>>)

\* ---- _assess_experience ----
\* the largest level among the table keys that occur in text.lower(); 0 if
\* none does or the text is falsy
KeywordLevel(text, table) ==
    LET hits == {kv \in table : Truthy(text) /\ IsSubstring(kv[1], Lower(text.s))}
    IN  IF hits = {} THEN 0
        ELSE CHOOSE l \in {kv[2] : kv \in hits} : \A kv \in hits : kv[2] <= l

DesignationLevels ==
    {<<"junior", 1>>, <<"entry", 1>>, <<"mid", 2>>, <<"intermediate", 2>>,
     <<"senior", 3>>, <<"lead", 3>>, <<"manager", 4>>, <<"head", 4>>,
     <<"director", 5>>, <<"executive", 5>>, <<"vp", 5>>, <<"cxo", 6>>}

_match_designation_level(candidate, job) ==
    LET d == KeywordLevel(candidate, DesignationLevels) - KeywordLevel(job, DesignationLevels)
    IN  d <= 1 /\ -d <= 1

\* comparisons and arithmetic on a value that is not a number, .lower() or
\* `+` on a value that is not a string
ExperienceRaises(c, j) ==
    \/ GetDefault(c, "total_experience_years", Num(0)).k # "num"
    \/ GetDefault(j, "min_experience_years", Num(0)).k # "num"
    \/ Get(j, "max_experience_years").k \notin {"num", "none"}
    \/ GetDefault(c, "gcc_experience_years", Num(0)).k # "num"
    \/ /\ Truthy(Get(j, "require_gcc_experience"))
       /\ GetDefault(j, "min_gcc_experience_years", Num(0)).k # "num"
    \/ GetDefault(c, "preferred_industry", Str("")).k # "str"
    \/ GetDefault(c, "employment_summary", Str("")).k # "str"
    \/ GetDefault(j, "industry", Str("")).k # "str"
    \/ GetDefault(j, "sub_industry", Str("")).k \notin {"str", "none"}
    \/ GetDefault(c, "preferred_functional_area", Str("")).k # "str"
    \/ GetDefault(j, "functional_area", Str("")).k \notin {"str", "none"}
    \/ GetDefault(c, "preferred_designation", Str("")).k \notin {"str", "none"}
    \/ GetDefault(j, "designation", Str("")).k \notin {"str", "none"}

TotalExperienceScore(c, j) ==
    LET candidate_exp == GetDefault(c, "total_experience_years", Num(0)).n
        min_exp == GetDefault(j, "min_experience_years", Num(0)).n
        max_exp == IF Get(j, "max_experience_years").k = "none" THEN min_exp + 10
                   ELSE Get(j, "max_experience_years").n
    IN  IF candidate_exp >= min_exp /\ candidate_exp <= max_exp THEN 100
        ELSE IF candidate_exp >= min_exp
        THEN (IF candidate_exp <= max_exp + 5 THEN 85 ELSE 70)
        ELSE IF candidate_exp >= min_exp - 1 THEN 75
        ELSE IF 2 * candidate_exp >= min_exp THEN 50
        ELSE 25

GccExperienceScore(c, j) ==
    LET gcc_exp == GetDefault(c, "gcc_experience_years", Num(0)).n
        min_gcc == IF Truthy(Get(j, "require_gcc_experience"))
                   THEN GetDefault(j, "min_gcc_experience_years", Num(0)).n ELSE 0
    IN  IF min_gcc = 0 THEN (IF gcc_exp > 0 THEN 100 ELSE 80)
        ELSE IF gcc_exp >= min_gcc THEN 100
        ELSE IF gcc_exp > 0 THEN 60
        ELSE 30

LogisticsKeywords ==
    {"logistics", "supply chain", "warehouse", "freight", "shipping", "transport"}

IndustryScore(c, j) ==
    LET candidate_industry == GetDefault(c, "preferred_industry", Str("")).s
        employment_summary == GetDefault(c, "employment_summary", Str("")).s
        job_industry == GetDefault(j, "industry", Str("")).s
        job_sub_industry == GetDefault(j, "sub_industry", Str(""))
        industry_keywords ==
            IF Truthy(job_sub_industry)
            THEN <<Lower(job_industry), Lower(job_sub_industry.s)>>
            ELSE <<Lower(job_industry)>>
        summary_lower == Lower(employment_summary) \o " " \o Lower(candidate_industry)
        Matches(ind) == ind # "" /\ IsSubstring(ind, summary_lower)
        matched_industries == SelectSeq(industry_keywords, Matches)
    IN  IF Len(matched_industries) >= 2 THEN 100
        ELSE IF Len(matched_industries) = 1 THEN 85
        ELSE IF \E keyword \in LogisticsKeywords : IsSubstring(keyword, summary_lower) THEN 75
        ELSE 50

FunctionalAreaScore(c, j) ==
    LET candidate_func == GetDefault(c, "preferred_functional_area", Str(""))
        employment_summary == GetDefault(c, "employment_summary", Str("")).s
        job_func == GetDefault(j, "functional_area", Str(""))
    IN  IF ~Truthy(job_func) THEN 100
        ELSE IF IsSubstring(Lower(job_func.s),
                            Lower(candidate_func.s) \o " " \o Lower(employment_summary))
        THEN 95
        ELSE IF Truthy(candidate_func) THEN 70
        ELSE 60

DesignationScore(c, j) ==
    LET candidate_designation == GetDefault(c, "preferred_designation", Str(""))
        job_designation == GetDefault(j, "designation", Str(""))
    IN  IF ~Truthy(job_designation) THEN 100
        ELSE IF _match_designation_level(candidate_designation, job_designation) THEN 95
        ELSE 70

_assess_experience(c, j) ==
    Section("experience",
        <<Field("total_experience", TotalExperienceScore(c, j), 15, TRUE),
          Field("gcc_experience", GccExperienceScore(c, j), 12, TRUE),
          Field("industry", IndustryScore(c, j), 10, TRUE),
          Field("functional_area", FunctionalAreaScore(c, j), 10,
                Specified(GetDefault(c, "preferred_functional_area", Str("")))),
          Field("designation", DesignationScore(c, j), 10, TRUE)>>)

\* ---- _assess_education ----
education_hierarchy ==
    {<<"phd", 5>>, <<"doctorate", 5>>, <<"masters", 4>>, <<"master", 4>>,
     <<"mba", 4>>, <<"msc", 4>>, <<"bachelors", 3>>, <<"bachelor", 3>>,
     <<"bsc", 3>>, <<"btech", 3>>, <<"diploma", 2>>, <<"associate", 2>>,
     <<"high school", 1>>, <<"secondary", 1>>}

EducationRaises(c, j) ==
    \/ GetDefault(c, "education_level", Str("")).k \notin {"str", "none"}
    \/ GetDefault(j, "required_education", Str("")).k \notin {"str", "none"}
    \/ GetDefault(c, "education_details", List(<<>>)).k \notin {"list", "none"}
    \/ /\ Truthy(GetDefault(c, "education_details", List(<<>>)))
       /\ \/ GetDefault(j, "job_description", Str("")).k # "str"
          \/ GetDefault(j, "title", Str("")).k # "str"

EducationLevelScore(c, j) ==
    LET candidate_level == KeywordLevel(GetDefault(c, "education_level", Str("")), education_hierarchy)
        required_level == KeywordLevel(GetDefault(j, "required_education", Str("")), education_hierarchy)
    IN  IF required_level = 0 THEN 100
        ELSE IF candidate_level >= required_level THEN 100
        ELSE IF candidate_level = required_level - 1 THEN 75
        ELSE 50

\* [e.get('field_of_study', '') for e in education_details if e.get('field_of_study')]
FieldsOfStudy(c) ==
    LET details == GetDefault(c, "education_details", List(<<>>)).items
        Has(e) == Truthy(Get(e.d, "field_of_study"))
        kept == SelectSeq(details, Has)
    IN  [n \in DOMAIN kept |-> Get(kept[n].d, "field_of_study").s]

FieldOfStudyScore(c, j) ==
    LET job_keywords == Lower(GetDefault(j, "job_description", Str("")).s) \o " "
                            \o Lower(GetDefault(j, "title", Str("")).s)
    IN  IF \E f \in Range(FieldsOfStudy(c)) : IsSubstring(Lower(f), job_keywords)
        THEN 95 ELSE 75

CertificationScore(c) ==
    LET certifications == GetDefault(c, "it_skills_certifications", List(<<>>))
    IN  IF certifications.k = "list" /\ Truthy(certifications)
        THEN Min(100, 70 + Len(certifications.items) * 10)
        ELSE 60

_assess_education(c, j) ==
    Section("education",
        <<Field("education_level", EducationLevelScore(c, j), 15,
                Specified(GetDefault(c, "education_level", Str(""))))>>
        \o (IF Truthy(GetDefault(c, "education_details", List(<<>>)))
            THEN <<Field("field_of_study", FieldOfStudyScore(c, j), 10,
                         Len(FieldsOfStudy(c)) > 0)>>
            ELSE <<>>)
        \o <<Field("certifications", CertificationScore(c), 10, TRUE)>>)

\* ---- _assess_skills ----
\* str.strip() on the input strings: the whitespace-only ones become empty,
\* the others carry no surrounding whitespace
Strip(s) == IF s \in BlankStrings THEN "" ELSE s

\* `value or []`
OrEmptyList(v) == IF Truthy(v) THEN v ELSE List(<<>>)

\* {s.lower().strip() for s in skill_list if s} for a list; nothing otherwise
SkillSetOf(skill_list) ==
    IF skill_list.k = "list"
    THEN {Strip(Lower(skill_list.items[n].s)) :
              n \in {m \in DOMAIN skill_list.items : Truthy(skill_list.items[m])}}
    ELSE {}

CandidateSkills(c) ==
    SkillSetOf(OrEmptyList(GetDefault(c, "professional_skills", List(<<>>))))
        \cup SkillSetOf(OrEmptyList(GetDefault(c, "it_skills", List(<<>>))))
        \cup SkillSetOf(OrEmptyList(GetDefault(c, "skills", List(<<>>))))

\* direct match or substring match either way
SkillMatches(skill, candidate_skills) ==
    LET skill_lower == Strip(Lower(skill.s))
    IN  \/ skill_lower \in candidate_skills
        \/ \E cs \in candidate_skills :
               IsSubstring(skill_lower, cs) \/ IsSubstring(cs, skill_lower)

\* for skill in required_skills on a value that is not a list of strings
SkillsRaises(c, j) ==
    \/ OrEmptyList(GetDefault(j, "required_skills", List(<<>>))).k # "list"
    \/ OrEmptyList(GetDefault(j, "preferred_skills", List(<<>>))).k # "list"

\* int((matched / len(wanted)) * 100), or 100 when nothing is wanted
SkillMatchScore(wanted, candidate_skills) ==
    LET Matched(skill) == SkillMatches(skill, candidate_skills)
        matched == SelectSeq(wanted.items, Matched)
    IN  IF Truthy(wanted) THEN (Len(matched) * 100) \div Len(wanted.items) ELSE 100

ItSkillsScore(c) ==
    LET it_skills == OrEmptyList(GetDefault(c, "it_skills", List(<<>>)))
        it_skill_list == IF it_skills.k = "list" THEN it_skills.items ELSE <<>>
    IN  IF it_skill_list # <<>> THEN Min(100, 60 + Len(it_skill_list) * 5) ELSE 50

\* the missing required skills that the explanation of the required_skills
\* field names: ', '.join(missing_required[:3])
MissingRequiredNamed(c, j) ==
    LET required_skills == OrEmptyList(GetDefault(j, "required_skills", List(<<>>)))
        Missing(skill) == ~SkillMatches(skill, CandidateSkills(c))
        missing_required == SelectSeq(required_skills.items, Missing)
    IN  SubSeq(missing_required, 1, Min(3, Len(missing_required)))

_assess_skills(c, j) ==
    LET required_skills == OrEmptyList(GetDefault(j, "required_skills", List(<<>>)))
        preferred_skills == OrEmptyList(GetDefault(j, "preferred_skills", List(<<>>)))
    IN  Section("skills",
            <<Field("required_skills", SkillMatchScore(required_skills, CandidateSkills(c)), 20, TRUE),
              Field("preferred_skills", SkillMatchScore(preferred_skills, CandidateSkills(c)), 10, TRUE),
              Field("it_skills", ItSkillsScore(c), 10, TRUE)>>)

\* ---- _assess_salary ----
\* `value or 0`
OrZero(v) == IF Truthy(v) THEN v ELSE Num(0)

SalaryRaises(c, j) ==
    \/ OrZero(GetDefault(c, "expected_salary", Num(0))).k # "num"
    \/ OrZero(GetDefault(c, "current_salary", Num(0))).k # "num"
    \/ OrZero(GetDefault(j, "salary_min", Num(0))).k # "num"
    \/ OrZero(GetDefault(j, "salary_max", Num(0))).k # "num"

ExpectedSalaryScore(c, j) ==
    LET expected_salary == OrZero(GetDefault(c, "expected_salary", Num(0))).n
        salary_min == OrZero(GetDefault(j, "salary_min", Num(0))).n
        salary_max == OrZero(GetDefault(j, "salary_max", Num(0))).n
    IN  IF salary_max = 0 THEN 100
        ELSE IF expected_salary = 0 THEN 80
        ELSE IF expected_salary <= salary_max
        THEN (IF expected_salary >= salary_min THEN 100 ELSE 95)
        ELSE IF 10 * expected_salary <= 11 * salary_max THEN 80
        ELSE IF 4 * expected_salary <= 5 * salary_max THEN 60
        ELSE 40

\* increase_pct = ((expected - current) / current) * 100 if current > 0 else 0,
\* compared with 20, 35 and 50
SalaryProgressionScore(c) ==
    LET expected_salary == OrZero(GetDefault(c, "expected_salary", Num(0))).n
        current_salary == OrZero(GetDefault(c, "current_salary", Num(0))).n
        AtMost(pct) == IF current_salary > 0
                       THEN (expected_salary - current_salary) * 100 <= pct * current_salary
                       ELSE TRUE
    IN  IF AtMost(20) THEN 100
        ELSE IF AtMost(35) THEN 85
        ELSE IF AtMost(50) THEN 70
        ELSE 50

_assess_salary(c, j) ==
    LET expected_salary == OrZero(GetDefault(c, "expected_salary", Num(0)))
        current_salary == OrZero(GetDefault(c, "current_salary", Num(0)))
    IN  Section("salary",
            <<Field("expected_salary", ExpectedSalaryScore(c, j), 20, Truthy(expected_salary))>>
            \o (IF Truthy(current_salary) /\ Truthy(expected_salary)
                THEN <<Field("salary_progression", SalaryProgressionScore(c), 10, TRUE)>>
                ELSE <<>>))

\* ---- _assess_cv ----
\* What the regular expressions and substring tests of _assess_cv find in
\* the CV texts used as inputs.  "CV_SHORT" strips to fewer than 100
\* characters; "CV_LONG" is a one-page CV.
CvFeatures(text) ==
    [contact_info |-> TRUE, phone |-> TRUE, adequate_length |-> TRUE,
     contains |-> {"logistics", "warehouse", "operations", "manager", "managed",
                   "experience", "years", "education", "skills", "python", "excel"},
     experience_patterns |-> 2, skills_section |-> TRUE, skill_bullets |-> 4]

\* kw in cv_lower
InCv(kw, text) == kw \in CvFeatures(text).contains

\* re.findall(r'\b[A-Za-z]{3,}\b', job_desc), lower-cased, for the job texts of the inputs
KeyTerms(job_desc) ==
    IF job_desc = "Manage logistics operations Logistics Manager"
    THEN {"manage", "logistics", "operations", "manager"}
    ELSE {}

common_words ==
    {"the", "and", "for", "with", "this", "that", "will", "have", "from",
     "they", "are", "been", "has"}

\* the set of lower-cased job keywords
JobKeywords(j) ==
    LET FromList(field) ==
            LET skills == GetDefault(j, field, List(<<>>))
            IN  IF skills.k = "list" THEN {skills.items[n].s : n \in DOMAIN skills.items} ELSE {}
        job_desc == GetDefault(j, "job_description", Str("")).s \o " "
                        \o GetDefault(j, "title", Str("")).s
        all == FromList("required_skills") \cup FromList("preferred_skills")
                   \cup FromList("keywords") \cup (KeyTerms(job_desc) \ common_words)
    IN  {Lower(k) : k \in {x \in all : StrLen(x) > 2}}

CountTrue(flags) == Cardinality({n \in DOMAIN flags : flags[n]})

CvRaises(cv_text, j) ==
    \/ cv_text.k # "str"
    \/ cv_text.s \notin CvShortTexts
       /\ \/ GetDefault(j, "job_description", Str("")).k # "str"
          \/ GetDefault(j, "title", Str("")).k # "str"
          \/ GetDefault(j, "industry", Str("")).k # "str"
          \/ GetDefault(j, "functional_area", Str("")).k # "str"

_assess_cv(cv_text, j, c) ==
    IF ~Truthy(cv_text) \/ cv_text.s \in CvShortTexts
    THEN [cv_score |-> 50, cv_quality_score |-> 50, content_relevance_score |-> 50,
          keyword_match_score |-> 50, experience_extraction_score |-> 50,
          skills_extraction_score |-> 50]
    ELSE
    LET f == CvFeatures(cv_text.s)
        In(kw) == InCv(kw, cv_text.s)
        quality_indicators ==
            <<f.contact_info, f.phone, In("linkedin"),
              \E section \in {"experience", "education", "skills", "summary"} : In(section),
              f.adequate_length,
              \E word \in {"achieved", "increased", "reduced", "improved", "managed", "led"} : In(word)>>
        quality_score == (CountTrue(quality_indicators) * 100) \div Len(quality_indicators)
        job_keywords == JobKeywords(j)
        matched_keywords == {kw \in job_keywords : In(kw)}
        keyword_score ==
            IF job_keywords # {}
            THEN (Cardinality(matched_keywords) * 100) \div Max(Cardinality(job_keywords), 1)
            ELSE 75
        industry == Lower(GetDefault(j, "industry", Str("")).s)
        func_area == Lower(GetDefault(j, "functional_area", Str("")).s)
        relevance_hits ==
            CountTrue(<<industry # "" /\ In(industry),
                        func_area # "" /\ In(func_area),
                        \E term \in {"logistics", "supply chain", "warehouse", "freight", "shipping"} : In(term),
                        \E term \in {"experience", "years", "worked", "employed"} : In(term)>>)
        relevance_score == Min(100, 50 + relevance_hits * 15)
        exp_score == Min(100, 50 + f.experience_patterns * 20)
        skills_score ==
            Min(100, 50 + (IF f.skills_section THEN 25 ELSE 0) + Min(f.skill_bullets * 5, 25))
        cv_score ==
            (quality_score * 15 + keyword_score * 30 + relevance_score * 25
                 + exp_score * 15 + skills_score * 15) \div 100
    IN  [cv_score |-> cv_score, cv_quality_score |-> quality_score,
         content_relevance_score |-> relevance_score, keyword_match_score |-> keyword_score,
         experience_extraction_score |-> exp_score, skills_extraction_score |-> skills_score]

\* ---- assess ----
\* _calculate_confidence: round(scored_fields / max(total_fields, 1), 2), in hundredths
_calculate_confidence(sections) ==
    LET total_fields == SumSeq([n \in DOMAIN sections |-> Len(sections[n].fields)])
        scored_fields ==
            SumSeq([n \in DOMAIN sections |->
                       Cardinality({m \in DOMAIN sections[n].fields : sections[n].fields[m].has_value})])
    IN  RoundDiv(scored_fields * 100, Max(total_fields, 1))

AssessRaises(c, j, cv_text) ==
    \/ PersonalDetailsRaises(c, j)
    \/ ExperienceRaises(c, j)
    \/ EducationRaises(c, j)
    \/ SkillsRaises(c, j)
    \/ SalaryRaises(c, j)
    \/ Truthy(Or(cv_text, Get(c, "cv_text"))) /\ CvRaises(Or(cv_text, Get(c, "cv_text")), j)

\* the CV section appended to the sections when a CV text is given
CvSection(cv_assessment) ==
    [section_name |-> "cv_analysis", fields |-> <<>>,
     total_score |-> cv_assessment.cv_score,
     match_level |-> _get_match_level(cv_assessment.cv_score),
     weight |-> SECTION_WEIGHTS.cv_analysis]

\* the sections list in the order assess appends to it
Sections(c, j, cv_assessment) ==
    <<_assess_personal_details(c, j), _assess_experience(c, j), _assess_education(c, j),
      _assess_skills(c, j), _assess_salary(c, j)>>
        \o (IF cv_assessment # None THEN <<CvSection(cv_assessment)>> ELSE <<>>)

\* rejection reasons, weighted total, recommendation and confidence of the
\* assessed sections; experience is sections[2] and skills is sections[4]
AssessmentOf(sections, cv_assessment, now) ==
    LET experience_section == sections[2]
        skills_section == sections[4]
        rejection_reasons ==
            (IF experience_section.total_score < 30 THEN <<"Experience mismatch">> ELSE <<>>)
            \o (IF skills_section.total_score < 30 THEN <<"Skills gap">> ELSE <<>>)
        total_weighted ==
            SumSeq([n \in DOMAIN sections |->
                       sections[n].total_score * SECTION_WEIGHTS[sections[n].section_name]])
        total_weight ==
            SumSeq([n \in DOMAIN sections |-> SECTION_WEIGHTS[sections[n].section_name]])
        total_score == IF total_weight > 0 THEN RoundDiv(total_weighted, total_weight) ELSE 0
        is_rejected == Len(rejection_reasons) > 0 \/ total_score < 25
    IN  [total_score |-> total_score,
         sections |-> sections,
         cv_assessment |-> cv_assessment,
         is_rejected |-> is_rejected,
         rejection_reasons |-> rejection_reasons,
         recommendation |->
             IF is_rejected THEN "NOT RECOMMENDED - Candidate does not meet minimum requirements"
             ELSE IF total_score >= 85 THEN "HIGHLY RECOMMENDED - Proceed to interview immediately"
             ELSE IF total_score >= 75 THEN "RECOMMENDED - Strong candidate for shortlist"
             ELSE IF total_score >= 65 THEN "CONSIDER - Review specific gaps before proceeding"
             ELSE IF total_score >= 50 THEN "BORDERLINE - May consider if role requirements are flexible"
             ELSE "NOT RECOMMENDED - Significant gaps exist",
         confidence_score |-> _calculate_confidence(sections),
         timestamp |-> now]

AssessWithCv(c, j, cv_assessment, now) ==
    AssessmentOf(Sections(c, j, cv_assessment), cv_assessment, now)

assess(c, j, cv_text_arg, now) ==
    LET cv_text == Or(cv_text_arg, Get(c, "cv_text"))
    IN  AssessWithCv(c, j, IF Truthy(cv_text) THEN _assess_cv(cv_text, j, c) ELSE None, now)

(***************************************************************************)
(* candidate_intelligence: RedFlagDetector, CareerProgressionAnalyzer,     *)
(* SkillCurrencyAnalyzer, CandidateInsightGenerator                        *)
(***************************************************************************)
\* RedFlagSeverity values
SEV_CRITICAL == "critical"
SEV_HIGH == "high"
SEV_MEDIUM == "medium"
SEV_LOW == "low"

RedFlag(flag_type, severity) == [type |-> flag_type, severity |-> severity]

\* data.get(key, {}) as the dict's contents (for a value that is a dict)
Sub(data, key) == GetDefault(data, key, Dict(<< >>)).d

\* data.get(key, {}).get(...) on a value that is not a dict raises AttributeError
NotDict(data, key) == GetDefault(data, key, Dict(<< >>)).k # "dict"

\* experience.get('entries', []) as a sequence
Entries(c) == GetDefault(Sub(c, "experience"), "entries", List(<<>>)).items

\* indices of keys in the order of sorted(..., reverse=True): descending,
\* equal keys in their original order
RECURSIVE DescOrder(_, _)
DescOrder(keys, remaining) ==
    IF remaining = {} THEN <<>>
    ELSE LET best == CHOOSE i \in remaining :
                         \A j \in remaining :
                             keys[i] > keys[j] \/ (keys[i] = keys[j] /\ i <= j)
         IN  <<best>> \o DescOrder(keys, remaining \ {best})

\* position of the 'YYYY-MM' strings of the inputs in lexicographic order
DateRank(v) ==
    IF v.k # "str" THEN 0
    ELSE CASE v.s = "2015-01" -> 1
           [] v.s = "2017-06" -> 2
           [] v.s = "2019-01" -> 3
           [] OTHER -> 0

_detect_employment_gaps(c) ==
    LET entries == Entries(c)
        HasStart(e) == Truthy(Get(e.d, "start_date"))
        dated == SelectSeq(entries, HasStart)
        keys == [n \in DOMAIN dated |-> DateRank(Get(dated[n].d, "start_date"))]
        order == DescOrder(keys, DOMAIN dated)
        sorted_entries == [n \in DOMAIN order |-> dated[order[n]]]
        Gap(n) == Truthy(Get(sorted_entries[n].d, "end_date"))
        pairs == SelectSeq([n \in 1..(Len(sorted_entries) - 1) |-> n], Gap)
    IN  IF Len(entries) < 2 THEN <<>>
        ELSE [n \in DOMAIN pairs |-> RedFlag("employment_gap", SEV_MEDIUM)]

\* every counted entry adds the placeholder 18 months, so the average tenure
\* is 18 and neither `< 12` nor `< 18` holds
_detect_job_hopping(c) == <<>>

_detect_overqualification(c, j) ==
    LET candidate_exp_months == OrZero(GetDefault(Sub(c, "experience"), "total_experience_months", Num(0))).n
        job_max_exp == GetDefault(Sub(j, "experience"), "max_years", Num(999))
    IN  IF Truthy(job_max_exp) /\ 2 * candidate_exp_months > 12 * 3 * job_max_exp.n
        THEN <<RedFlag("overqualification", SEV_MEDIUM)>> ELSE <<>>

_detect_underqualification(c, j) ==
    LET candidate_exp_months == OrZero(GetDefault(Sub(c, "experience"), "total_experience_months", Num(0))).n
        job_min_exp == GetDefault(Sub(j, "experience"), "min_years", Num(0))
    IN  IF Truthy(job_min_exp) /\ 4 * candidate_exp_months < 12 * 3 * job_min_exp.n
        THEN <<RedFlag("underqualification", SEV_HIGH)>> ELSE <<>>

_detect_salary_mismatch(c, j) ==
    LET expected_salary == OrZero(GetDefault(Sub(c, "personal_details"), "expected_salary", Num(0))).n
        job_max_salary == OrZero(GetDefault(Sub(j, "personal_details"), "salary_max", Num(0))).n
    IN  IF expected_salary # 0 /\ job_max_salary # 0
        THEN IF 10 * expected_salary > 12 * job_max_salary
             THEN <<RedFlag("salary_mismatch", SEV_HIGH)>>
             ELSE IF 10 * expected_salary < 6 * job_max_salary
             THEN <<RedFlag("salary_concern", SEV_LOW)>>
             ELSE <<>>
        ELSE <<>>

\* {s.lower() for s in data.get('skills', {}).get(key, [])}
NestedSkillSet(data, key) ==
    LET skills == GetDefault(Sub(data, "skills"), key, List(<<>>)).items
    IN  {Lower(skills[n].s) : n \in DOMAIN skills}

_detect_critical_skill_gaps(c, j) ==
    LET candidate_skills == NestedSkillSet(c, "all_skills")
        required_skills == NestedSkillSet(j, "required_skills")
        missing_count == Cardinality(required_skills \ candidate_skills)
        required_count == Cardinality(required_skills)
    IN  IF required_skills = {} THEN <<>>
        ELSE IF 2 * missing_count > required_count
        THEN <<RedFlag("critical_skill_gaps", SEV_CRITICAL)>>
        ELSE IF missing_count > 0 THEN <<RedFlag("skill_gaps", SEV_MEDIUM)>>
        ELSE <<>>

senior_keywords == {"senior", "lead", "principal", "architect", "manager", "director", "vp", "head"}
junior_keywords == {"junior", "associate", "assistant", "intern", "trainee"}

\* e.get('job_title', '').lower()
TitleOf(e) == Lower(GetDefault(e.d, "job_title", Str("")).s)

_detect_career_regression(c) ==
    LET entries == Entries(c)
    IN  IF Len(entries) < 2 THEN <<>>
        ELSE IF /\ \E kw \in junior_keywords : IsSubstring(kw, TitleOf(entries[1]))
                /\ \E kw \in senior_keywords : IsSubstring(kw, TitleOf(entries[2]))
        THEN <<RedFlag("career_regression", SEV_MEDIUM)>>
        ELSE <<>>

_detect_missing_information(c) ==
    (IF ~Truthy(Get(Sub(c, "personal_details"), "email")) /\ ~Truthy(Get(c, "email"))
     THEN <<RedFlag("missing_contact", SEV_CRITICAL)>> ELSE <<>>)
    \o (IF ~Truthy(Get(Sub(c, "experience"), "entries"))
        THEN <<RedFlag("missing_experience", SEV_HIGH)>> ELSE <<>>)
    \o (IF ~Truthy(GetDefault(c, "education", List(<<>>)))
        THEN <<RedFlag("missing_education", SEV_MEDIUM)>> ELSE <<>>)

detect_all_red_flags(c, j) ==
    _detect_employment_gaps(c) \o _detect_job_hopping(c)
        \o _detect_overqualification(c, j) \o _detect_underqualification(c, j)
        \o _detect_salary_mismatch(c, j) \o _detect_critical_skill_gaps(c, j)
        \o _detect_career_regression(c) \o _detect_missing_information(c)

\* CareerProgressionAnalyzer._calculate_title_seniority
_calculate_title_seniority(title) ==
    LET HasAny(kws) == \E kw \in kws : IsSubstring(kw, title)
    IN  IF HasAny({"cto", "ceo", "cfo", "vp", "vice president"}) THEN 10
        ELSE IF HasAny({"director", "head of"}) THEN 9
        ELSE IF HasAny({"manager"}) THEN (IF HasAny({"senior", "lead"}) THEN 7 ELSE 6)
        ELSE IF HasAny({"architect", "principal"}) THEN 6
        ELSE IF HasAny({"lead", "senior"}) THEN 5
        ELSE IF HasAny({"engineer", "developer", "analyst", "specialist"})
                /\ ~HasAny({"junior", "associate", "trainee"}) THEN 3
        ELSE IF HasAny({"junior", "associate", "assistant"}) THEN 2
        ELSE IF HasAny({"intern", "trainee"}) THEN 1
        ELSE 3

\* CareerProgressionAnalyzer.analyze_progression; growth = recent_avg - older_avg
\* is compared after multiplying by 2 * len(older)
analyze_progression(c) ==
    LET entries == Entries(c)
        keys == [n \in DOMAIN entries |-> DateRank(GetDefault(entries[n].d, "start_date", Str("")))]
        order == DescOrder(keys, DOMAIN entries)
        last5 == SubSeq(order, 1, Min(5, Len(order)))
        seniority_scores == [n \in DOMAIN last5 |-> _calculate_title_seniority(TitleOf(entries[last5[n]]))]
        recent2 == seniority_scores[1] + seniority_scores[2]
        older == SubSeq(seniority_scores, 3, Len(seniority_scores))
        den == 2 * Len(older)
        growth_num == IF Len(older) > 0 THEN recent2 * Len(older) - 2 * SumSeq(older) ELSE 0
        scale == IF Len(older) > 0 THEN den ELSE 1
    IN  IF Len(entries) < 2 THEN "unclear"
        ELSE IF growth_num >= 2 * scale THEN "strong_upward"
        ELSE IF growth_num >= scale THEN "steady_upward"
        ELSE IF 2 * growth_num > -scale THEN "lateral"
        ELSE IF 2 * growth_num > -3 * scale THEN "stagnant"
        ELSE "declining"

CURRENT_TECH ==
    {"react", "vue", "angular", "next.js", "typescript", "node.js", "fastapi",
     "flutter", "react native", "swift", "kotlin", "swiftui",
     "python", "pandas", "spark", "airflow", "dbt", "snowflake",
     "tensorflow", "pytorch", "scikit-learn", "transformers", "langchain",
     "aws", "azure", "gcp", "kubernetes", "docker", "terraform",
     "postgresql", "mongodb", "redis", "elasticsearch"}

OUTDATED_TECH == {"flash", "silverlight", "vb6", "perl", "coldfusion", "asp classic"}

\* SkillCurrencyAnalyzer.calculate_skill_currency, in tenths of a point
\* (the value after the service's round(..., 1))
calculate_skill_currency(c) ==
    LET skills == GetDefault(Sub(c, "skills"), "all_skills", List(<<>>)).items
        candidate_skills == [n \in DOMAIN skills |-> Lower(skills[n].s)]
        Current(n) == \E tech \in CURRENT_TECH : IsSubstring(tech, candidate_skills[n])
        Outdated(n) == \E tech \in OUTDATED_TECH : IsSubstring(tech, candidate_skills[n])
        current_count == Cardinality({n \in DOMAIN candidate_skills : Current(n)})
        outdated_count == Cardinality({n \in DOMAIN candidate_skills : Outdated(n)})
        total == Len(candidate_skills)
        score_num == current_count * 1000 - outdated_count * 300
    IN  IF total = 0 THEN 500
        ELSE IF score_num <= 0 THEN 0
        ELSE Min(1000, RoundDiv(score_num, total))

\* (edu.get('education_level') or '').lower()
LevelOf(edu) == Lower(Or(Get(edu.d, "education_level"), Str("")).s)

\* the sequence c.get('education', []) when truthy, else empty
EducationList(c) ==
    LET education == GetDefault(c, "education", List(<<>>))
    IN  IF Truthy(education) THEN education.items ELSE <<>>

\* _calculate_learning_potential, in tenths of a point
_calculate_learning_potential(c) ==
    LET education == EducationList(c)
        Bonus(edu) ==
            IF IsSubstring("phd", LevelOf(edu)) \/ IsSubstring("doctorate", LevelOf(edu)) THEN 20
            ELSE IF IsSubstring("master", LevelOf(edu)) \/ IsSubstring("mba", LevelOf(edu)) THEN 15
            ELSE IF IsSubstring("bachelor", LevelOf(edu)) THEN 10
            ELSE 0
        skills == GetDefault(Sub(c, "skills"), "all_skills", List(<<>>)).items
        score == 50 + SumSeq([n \in DOMAIN education |-> Bonus(education[n])])
                    + (IF Len(skills) > 15 THEN 10 ELSE IF Len(skills) > 10 THEN 5 ELSE 0)
                    + (IF Truthy(GetDefault(c, "certifications", List(<<>>))) THEN 10 ELSE 0)
    IN  10 * Min(100, score)

\* _calculate_cultural_fit, in tenths of a point
_calculate_cultural_fit(c, red_flags) ==
    LET IsHopping(f) == f.type = "job_hopping"
        IsCritical(f) == f.severity = SEV_CRITICAL
        score == 75 - (IF SelectSeq(red_flags, IsHopping) # <<>> THEN 20 ELSE 0)
                    + (IF Len(Entries(c)) >= 3 THEN 10 ELSE 0)
                    - Len(SelectSeq(red_flags, IsCritical)) * 15
    IN  10 * Max(0, Min(100, score))

\* the section names of the assessment in insertion order
SectionOrder == <<"personal_details", "experience", "education", "skills", "salary", "cv_analysis">>

SectionNames(section_scores) ==
    LET In(name) == name \in DOMAIN section_scores
    IN  SelectSeq(SectionOrder, In)

\* strengths[:5]
_extract_strengths(c, assessment) ==
    LET names == SectionNames(assessment.section_scores)
        High(name) == assessment.section_scores[name].score >= 85
        high == SelectSeq(names, High)
        total_exp == GetDefault(Sub(c, "experience"), "total_experience_years", Num(0))
        gcc_exp == GetDefault(Sub(c, "experience"), "gcc_experience_years", Num(0))
        education == GetDefault(c, "education", List(<<>>)).items
        Advanced(e) == IsSubstring("master", LevelOf(e)) \/ IsSubstring("phd", LevelOf(e))
        strengths ==
            [n \in DOMAIN high |-> "Excellent " \o high[n] \o " match"]
            \o (IF Truthy(total_exp) /\ total_exp.n >= 5 THEN <<"years of industry experience">> ELSE <<>>)
            \o (IF Truthy(gcc_exp) /\ gcc_exp.n >= 2 THEN <<"years of GCC experience">> ELSE <<>>)
            \o (IF SelectSeq(education, Advanced) # <<>> THEN <<"Advanced degree qualification">> ELSE <<>>)
    IN  SubSeq(strengths, 1, Min(5, Len(strengths)))

\* weaknesses[:5]
_extract_weaknesses(assessment, red_flags) ==
    LET names == SectionNames(assessment.section_scores)
        Low(name) == assessment.section_scores[name].score < 50
        low == SelectSeq(names, Low)
        Severe(f) == f.severity \in {SEV_HIGH, SEV_CRITICAL}
        high_severity_flags == SelectSeq(red_flags, Severe)
        first3 == SubSeq(high_severity_flags, 1, Min(3, Len(high_severity_flags)))
        weaknesses ==
            [n \in DOMAIN low |-> "Weak " \o low[n] \o " match"]
            \o [n \in DOMAIN first3 |-> first3[n].type]
    IN  SubSeq(weaknesses, 1, Min(5, Len(weaknesses)))

\* CandidateInsightGenerator._generate_recommendation
InsightRecommendation(assessment, red_flags) ==
    LET IsCritical(f) == f.severity = SEV_CRITICAL
        IsHigh(f) == f.severity = SEV_HIGH
        critical_flags == SelectSeq(red_flags, IsCritical)
        high_flags == SelectSeq(red_flags, IsHigh)
    IN  IF assessment.is_rejected THEN "DO NOT PROCEED - Failed hard rejection criteria"
        ELSE IF critical_flags # <<>> THEN "NOT RECOMMENDED - Critical concerns present"
        ELSE IF assessment.total_score >= 85 /\ high_flags = <<>>
        THEN "HIGHLY RECOMMENDED - Excellent match with no major concerns"
        ELSE IF assessment.total_score >= 75
        THEN (IF high_flags # <<>>
              THEN "RECOMMENDED WITH CAUTION - Good match but address concerns in interview"
              ELSE "RECOMMENDED - Strong candidate worth interviewing")
        ELSE IF assessment.total_score >= 60
        THEN "CONSIDER - Moderate match, proceed if other options limited"
        ELSE "NOT RECOMMENDED - Weak match, better candidates likely available"

\* .get on a value that is not a dict, iteration over None
InsightsRaise(c, j) ==
    \/ NotDict(c, "experience") \/ NotDict(j, "experience")
    \/ NotDict(c, "personal_details") \/ NotDict(j, "personal_details")
    \/ NotDict(c, "skills") \/ NotDict(j, "skills")
    \/ GetDefault(c, "education", List(<<>>)).k # "list"

\* generate_insights followed by the service's conversion to a dict
generate_insights(c, j, assessment) ==
    LET red_flags == detect_all_red_flags(c, j)
    IN  [strengths |-> _extract_strengths(c, assessment),
         weaknesses |-> _extract_weaknesses(assessment, red_flags),
         red_flags |-> red_flags,
         career_progression |-> analyze_progression(c),
         skill_currency_score |-> calculate_skill_currency(c),
         learning_potential |-> _calculate_learning_potential(c),
         cultural_fit_score |-> _calculate_cultural_fit(c, red_flags),
         recommendation |-> InsightRecommendation(assessment, red_flags),
         key_highlights |-> <<"Overall Match Score">>]

(***************************************************************************)
(* GrowthPotentialAnalyzer                                                 *)
(***************************************************************************)
\* data.get(key, []) as a sequence (for a value that has a length)
Seq0(data, key) ==
    LET v == GetDefault(data, key, List(<<>>))
    IN  IF v.k = "list" THEN v.items ELSE <<>>

\* len(data.get(key, [])) raises on None and on numbers
LenOfRaises(data, key) == LenRaises(GetDefault(data, key, List(<<>>)))

\* str(x).lower() of a list item
ItemText(v) == IF v.k = "str" THEN Lower(v.s) ELSE ""

\* datetime.now().year at instant `now`
YearOf(now) == 2026 + now

modern_tech ==
    {"react", "vue", "angular", "node", "python", "ai", "ml", "cloud",
     "aws", "azure", "docker", "kubernetes", "microservices"}

GrowthStep(count, hi, hi_points, mid, mid_points, lo, lo_points) ==
    IF count > hi THEN hi_points
    ELSE IF count > mid THEN mid_points
    ELSE IF count > lo THEN lo_points
    ELSE 0

_assess_skill_acquisition_rate(c, now) ==
    LET skills == Seq0(c, "skills")
        it_skills == Seq0(c, "it_skills")
        certifications == Seq0(c, "certifications")
        total_skills == Len(skills) + Len(it_skills)
        Recent(cert) ==
            /\ cert.k = "dict"
            /\ Truthy(GetDefault(cert.d, "issue_date", Str("")))
            /\ IsSubstring(ToString(YearOf(now) - 2), GetDefault(cert.d, "issue_date", Str("")).s)
        recent_certs == Len(SelectSeq(certifications, Recent))
        Modern(skill) == \E tech \in modern_tech : IsSubstring(tech, ItemText(skill))
        modern_count == Len(SelectSeq(skills \o it_skills, Modern))
        score == 50 + GrowthStep(total_skills, 15, 20, 10, 15, 5, 10)
                    + (IF recent_certs >= 3 THEN 15 ELSE IF recent_certs >= 1 THEN 10 ELSE 0)
                    + (IF modern_count >= 5 THEN 15 ELSE IF modern_count >= 3 THEN 10 ELSE 0)
        indicators == (IF total_skills > 10 THEN 1 ELSE 0)
                          + (IF recent_certs >= 1 THEN 1 ELSE 0)
                          + (IF modern_count >= 5 THEN 1 ELSE 0)
    IN  [score |-> Min(100, score), indicators |-> indicators]

_assess_education_investment(c, j) ==
    LET education_level == Lower(GetDefault(c, "education_level", Str("")).s)
        required_edu == Lower(GetDefault(j, "required_education", Str("")).s)
        HasLevel(levels) == \E level \in levels : IsSubstring(level, education_level)
        education_details == Seq0(c, "education_details")
        specialization == GetDefault(c, "specialization", Str(""))
        exceeds == IsSubstring("masters", education_level) /\ IsSubstring("bachelor", required_edu)
        score == 50 + (IF HasLevel({"phd", "doctorate"}) THEN 30
                       ELSE IF HasLevel({"masters", "mba", "msc"}) THEN 20
                       ELSE IF HasLevel({"bachelor", "bsc", "btech"}) THEN 10
                       ELSE 0)
                    + (IF exceeds THEN 15 ELSE 0)
                    + (IF Len(education_details) > 1 THEN 10 ELSE 0)
                    + (IF Truthy(specialization) /\ StrLen(specialization.s) > 3
                       THEN 5 ELSE 0)
        indicators == (IF HasLevel({"phd", "doctorate", "masters", "mba", "msc"}) THEN 1 ELSE 0)
                          + (IF exceeds THEN 1 ELSE 0)
                          + (IF Len(education_details) > 1 THEN 1 ELSE 0)
    IN  [score |-> Min(100, score), indicators |-> indicators]

_assess_career_trajectory(c) ==
    LET total_exp_years == GetDefault(c, "total_experience_years", Num(0)).n
        employment_history == Seq0(c, "employment_history")
        jobs == Len(employment_history)
        rated == total_exp_years > 0 /\ jobs > 0
        \* change_rate = jobs / total_exp_years against 0.3, 0.6, 0.15
        healthy == rated /\ 10 * jobs >= 3 * total_exp_years /\ 10 * jobs <= 6 * total_exp_years
        stable == rated /\ ~healthy /\ 100 * jobs >= 15 * total_exp_years
                     /\ 10 * jobs < 3 * total_exp_years
        fast == rated /\ ~healthy /\ ~stable /\ 10 * jobs > 6 * total_exp_years
        current_designation == Lower(GetDefault(c, "preferred_designation", Str("")).s)
        has_leadership ==
            \E keyword \in {"senior", "lead", "manager", "head", "director", "principal"} :
                IsSubstring(keyword, current_designation)
        HasIndustry(job) == job.k = "dict" /\ Truthy(Get(job.d, "industry"))
        with_industry == SelectSeq(employment_history, HasIndustry)
        industries == {Lower(Get(with_industry[n].d, "industry").s) : n \in DOMAIN with_industry}
        score == 50 + (IF healthy THEN 20 ELSE IF stable THEN 10 ELSE IF fast THEN 5 ELSE 0)
                    + (IF has_leadership /\ total_exp_years < 10 THEN 15
                       ELSE IF has_leadership THEN 10 ELSE 0)
                    + (IF Cardinality(industries) >= 3 THEN 15
                       ELSE IF Cardinality(industries) >= 2 THEN 10 ELSE 0)
        indicators == (IF healthy \/ stable \/ fast THEN 1 ELSE 0)
                          + (IF has_leadership THEN 1 ELSE 0)
                          + (IF Cardinality(industries) >= 2 THEN 1 ELSE 0)
    IN  [score |-> Min(100, score), indicators |-> indicators]

premium_certs ==
    {"aws", "azure", "gcp", "pmp", "cissp", "cpa", "cfa", "scrum", "agile",
     "six sigma", "itil", "ccna", "ccnp"}

\* str(cert).lower() for a string, str(cert.get('certification_name', '')).lower() otherwise
CertName(cert) ==
    IF cert.k = "str" THEN Lower(cert.s)
    ELSE ItemText(GetDefault(cert.d, "certification_name", Str("")))

_assess_certifications_currency(c) ==
    LET certifications == Seq0(c, "certifications")
        Premium(cert) == \E premium \in premium_certs : IsSubstring(premium, CertName(cert))
        premium_count == Len(SelectSeq(certifications, Premium))
        n == Len(certifications)
        score == 50 + (IF n >= 5 THEN 20 ELSE IF n >= 3 THEN 15 ELSE IF n >= 1 THEN 10 ELSE 0)
                    + (IF premium_count >= 2 THEN 20 ELSE IF premium_count >= 1 THEN 15 ELSE 0)
        indicators == (IF n >= 3 THEN 1 ELSE 0) + (IF premium_count >= 1 THEN 1 ELSE 0)
    IN  [score |-> Min(100, score), indicators |-> indicators]

\* l.strip() for l in languages.split(',') if l.strip(): how many, for the
\* strings of the inputs
LanguageCount(languages) ==
    IF languages.k = "str"
    THEN (CASE languages.s \in BlankStrings -> 0
            [] languages.s = "English, Arabic" -> 2
            [] languages.s = "English, Arabic, Hindi" -> 3
            [] OTHER -> 1)
    ELSE Len(languages.items)

soft_skills ==
    {"leadership", "communication", "teamwork", "problem solving",
     "analytical", "management", "strategic", "collaboration"}

_assess_industry_adaptability(c) ==
    LET professional_skills == Seq0(c, "professional_skills")
        functional_skills == Seq0(c, "functional_skills")
        total_functional == Len(professional_skills) + Len(functional_skills)
        languages == LanguageCount(GetDefault(c, "languages_known", List(<<>>)))
        gcc_exp_years == GetDefault(c, "gcc_experience_years", Num(0)).n
        total_exp_years == GetDefault(c, "total_experience_years", Num(0)).n
        international == gcc_exp_years > 0 /\ total_exp_years > gcc_exp_years
        all == professional_skills \o functional_skills
        \* soft in ' '.join(...): inside one of the joined skill names
        soft_count == Cardinality({soft \in soft_skills :
                          \E n \in DOMAIN all : IsSubstring(soft, ItemText(all[n]))})
        score == 50 + (IF total_functional > 10 THEN 15 ELSE IF total_functional > 5 THEN 10 ELSE 0)
                    + (IF languages >= 3 THEN 15 ELSE IF languages >= 2 THEN 10 ELSE 0)
                    + (IF international THEN 15 ELSE 0)
                    + (IF soft_count >= 4 THEN 10 ELSE 0)
        indicators == (IF total_functional > 10 THEN 1 ELSE 0)
                          + (IF languages >= 2 THEN 1 ELSE 0)
                          + (IF international THEN 1 ELSE 0)
                          + (IF soft_count >= 4 THEN 1 ELSE 0)
    IN  [score |-> Min(100, score), indicators |-> indicators]

\* _determine_tier; growth_score is in hundredths of a point
_determine_tier(growth_score, current_score) ==
    IF growth_score >= 7500 THEN "high_potential"
    ELSE IF growth_score >= 6500 /\ current_score < 70 THEN "high_potential"
    ELSE IF growth_score >= 5000 THEN "standard"
    ELSE "limited"

\* len(), .lower(), `+` and comparisons on None in the analyzer
GrowthRaises(c, j) ==
    \/ LenOfRaises(c, "skills") \/ LenOfRaises(c, "it_skills")
    \/ LenOfRaises(c, "certifications")
    \/ GetDefault(c, "education_level", Str("")).k # "str"
    \/ GetDefault(j, "required_education", Str("")).k # "str"
    \/ LenOfRaises(c, "education_details")
    \/ GetDefault(c, "total_experience_years", Num(0)).k # "num"
    \/ LenOfRaises(c, "employment_history")
    \/ GetDefault(c, "preferred_designation", Str("")).k # "str"
    \/ LenOfRaises(c, "professional_skills") \/ LenOfRaises(c, "functional_skills")
    \/ LenOfRaises(c, "languages_known")
    \/ GetDefault(c, "gcc_experience_years", Num(0)).k # "num"

\* weights that do not add up to 1
WeightsSummingBelowOne ==
    [recent_skill_acquisition |-> 15, education_investment |-> 15,
     career_progression_speed |-> 15, certifications_currency |-> 15,
     industry_adaptability |-> 15]

\* GrowthPotentialAnalyzer.WEIGHTS, in hundredths
WEIGHTS ==
    [recent_skill_acquisition |-> 25, education_investment |-> 20,
     career_progression_speed |-> 25, certifications_currency |-> 15,
     industry_adaptability |-> 15]

\* analyze followed by the service's conversion to a dict; the scores are
\* the values after round(..., 1), in tenths of a point
analyze(c, j, current_assessment_score, now) ==
    LET skill_acquisition == _assess_skill_acquisition_rate(c, now)
        education_inv == _assess_education_investment(c, j)
        career_traj == _assess_career_trajectory(c)
        cert_currency == _assess_certifications_currency(c)
        adaptability == _assess_industry_adaptability(c)
        \* in hundredths of a point
        growth_score ==
            skill_acquisition.score * WEIGHTS.recent_skill_acquisition
                + education_inv.score * WEIGHTS.education_investment
                + career_traj.score * WEIGHTS.career_progression_speed
                + cert_currency.score * WEIGHTS.certifications_currency
                + adaptability.score * WEIGHTS.industry_adaptability
        indicators == skill_acquisition.indicators + education_inv.indicators
                          + career_traj.indicators + cert_currency.indicators
                          + adaptability.indicators
    IN  [growth_potential_score |-> RoundDiv(growth_score, 10),
         learning_agility |-> 5 * (skill_acquisition.score + adaptability.score),
         career_trajectory_score |-> 10 * career_traj.score,
         skill_acquisition_rate |-> 10 * skill_acquisition.score,
         adaptability_score |-> 10 * adaptability.score,
         tier |-> _determine_tier(growth_score, current_assessment_score),
         indicators |-> Min(8, indicators)]

\* the growth_data of the `except` branch
DefaultGrowth ==
    [growth_potential_score |-> 500, learning_agility |-> 500,
     career_trajectory_score |-> 500, skill_acquisition_rate |-> 500,
     adaptability_score |-> 500, tier |-> "not_assessed", indicators |-> 0]

(***************************************************************************)
(* SmartRecommendationEngine                                               *)
(* Scores, bounds, margins and probabilities are in tenths of a point;     *)
(* a confidence score is in ten-thousandths (10000 stands for 1.0).        *)
(***************************************************************************)
THRESHOLDS == [immediate_interview |-> 800, shortlist |-> 700, waitlist |-> 600, reject |-> 600]

\* margin_multiplier in tenths
CONFIDENCE_LEVELS ==
    [high |-> [level |-> 95, margin_multiplier |-> 10],
     medium |-> [level |-> 90, margin_multiplier |-> 15],
     low |-> [level |-> 80, margin_multiplier |-> 20]]

\* round(x, 1) of the non-negative quantity p / 10^5 points, in tenths
RoundTenths(p) == RoundDiv(p, 10000)

\* the margin with the adjustment factor written as (0.5 - confidence_score)
MarginOfHalf(margin_multiplier, confidence_score) ==
    5 * margin_multiplier * (5000 - confidence_score)

\* base_margin * margin_multiplier * (1.5 - confidence_score), in 10^-5 points
MarginOf(margin_multiplier, confidence_score) ==
    5 * margin_multiplier * (15000 - confidence_score)

_calculate_confidence_interval(score, confidence_level, confidence_score) ==
    LET config == IF confidence_level \in DOMAIN CONFIDENCE_LEVELS
                  THEN CONFIDENCE_LEVELS[confidence_level]
                  ELSE CONFIDENCE_LEVELS["medium"]
        margin == MarginOf(config.margin_multiplier, confidence_score)
        lower == Max(0, score * 10000 - margin)
        upper == Min(100 * 100000, score * 10000 + margin)
    IN  [point_estimate |-> score,
         lower_bound |-> RoundTenths(lower),
         upper_bound |-> RoundTenths(upper),
         margin_of_error |-> RoundTenths(margin),
         confidence_level |-> config.level]

\* growth_score is None or a number; `if growth_score and growth_score >= t`
GrowthAtLeast(growth_score, t) ==
    growth_score.k = "num" /\ growth_score.n # 0 /\ growth_score.n >= t

\* the decision without the rule for a score of 80 or more with no red flag
ActionWithoutZeroFlagRule(score, ci, is_rejected, red_flag_count, growth_score) ==
    LET conservative_score == ci.lower_bound
    IN  IF is_rejected \/ score < 400 THEN <<"reject", "none">>
        ELSE IF red_flag_count >= 3 THEN <<"hold_for_review", "low">>
        ELSE IF GrowthAtLeast(growth_score, 750) /\ score >= 650 THEN <<"shortlist", "high">>
        ELSE IF score >= THRESHOLDS.immediate_interview /\ conservative_score >= 750
        THEN <<"immediate_interview", "critical">>
        ELSE IF score >= THRESHOLDS.shortlist /\ conservative_score >= 650
        THEN <<"shortlist", "high">>
        ELSE IF score >= THRESHOLDS.shortlist /\ red_flag_count <= 1
        THEN <<"shortlist", "medium">>
        ELSE IF score >= THRESHOLDS.waitlist /\ conservative_score >= 550
        THEN <<"waitlist", "medium">>
        ELSE IF score >= THRESHOLDS.waitlist THEN <<"waitlist", "low">>
        ELSE <<"reject", "none">>

\* the decision with the growth rule tried before the red-flag rule
ActionWithGrowthBeforeRedFlags(score, ci, is_rejected, red_flag_count, growth_score) ==
    LET conservative_score == ci.lower_bound
    IN  IF is_rejected \/ score < 400 THEN <<"reject", "none">>
        ELSE IF GrowthAtLeast(growth_score, 750) /\ score >= 650 THEN <<"shortlist", "high">>
        ELSE IF red_flag_count >= 3 THEN <<"hold_for_review", "low">>
        ELSE IF score >= THRESHOLDS.immediate_interview /\ conservative_score >= 750
        THEN <<"immediate_interview", "critical">>
        ELSE IF score >= THRESHOLDS.immediate_interview /\ red_flag_count = 0
        THEN <<"immediate_interview", "high">>
        ELSE IF score >= THRESHOLDS.shortlist /\ conservative_score >= 650
        THEN <<"shortlist", "high">>
        ELSE IF score >= THRESHOLDS.shortlist /\ red_flag_count <= 1
        THEN <<"shortlist", "medium">>
        ELSE IF score >= THRESHOLDS.waitlist /\ conservative_score >= 550
        THEN <<"waitlist", "medium">>
        ELSE IF score >= THRESHOLDS.waitlist THEN <<"waitlist", "low">>
        ELSE <<"reject", "none">>

_determine_action_and_priority(score, ci, is_rejected, red_flag_count, growth_score) ==
    LET conservative_score == ci.lower_bound
    IN  IF is_rejected \/ score < 400 THEN <<"reject", "none">>
        ELSE IF red_flag_count >= 3 THEN <<"hold_for_review", "low">>
        ELSE IF GrowthAtLeast(growth_score, 750) /\ score >= 650 THEN <<"shortlist", "high">>
        ELSE IF score >= THRESHOLDS.immediate_interview /\ conservative_score >= 750
        THEN <<"immediate_interview", "critical">>
        ELSE IF score >= THRESHOLDS.immediate_interview /\ red_flag_count = 0
        THEN <<"immediate_interview", "high">>
        ELSE IF score >= THRESHOLDS.shortlist /\ conservative_score >= 650
        THEN <<"shortlist", "high">>
        ELSE IF score >= THRESHOLDS.shortlist /\ red_flag_count <= 1
        THEN <<"shortlist", "medium">>
        ELSE IF score >= THRESHOLDS.waitlist /\ conservative_score >= 550
        THEN <<"waitlist", "medium">>
        ELSE IF score >= THRESHOLDS.waitlist THEN <<"waitlist", "low">>
        ELSE <<"reject", "none">>

_assess_hiring_risk(score, ci, red_flag_count, confidence_score) ==
    LET interval_width == ci.upper_bound - ci.lower_bound
        risk_factors ==
            (IF interval_width > 150 THEN 2 ELSE IF interval_width > 100 THEN 1 ELSE 0)
            + (IF red_flag_count >= 2 THEN 2 ELSE IF red_flag_count >= 1 THEN 1 ELSE 0)
            + (IF confidence_score < 6000 THEN 2 ELSE IF confidence_score < 7500 THEN 1 ELSE 0)
            + (IF score < 700 /\ red_flag_count > 0 THEN 1 ELSE 0)
    IN  IF risk_factors >= 4 THEN "high"
        ELSE IF risk_factors >= 2 THEN "medium"
        ELSE "low"

_generate_next_steps(action, score, red_flag_count) ==
    CASE action = "immediate_interview" ->
            <<"Schedule interview within 24-48 hours", "Prepare job offer parameters">>
            \o (IF score < 900 THEN <<"Address minor gaps during interview">> ELSE <<>>)
      [] action = "shortlist" ->
            <<"Add to shortlist for interview scheduling",
              "Request additional information if needed">>
            \o (IF red_flag_count > 0 THEN <<"Verify concerns">> ELSE <<>>)
            \o <<"Compare with other shortlisted candidates">>
      [] action = "waitlist" ->
            <<"Add to waitlist - review if shortlist exhausted", "Monitor for better candidates">>
            \o (IF score >= 650 THEN <<"Consider if requirements can be adjusted">> ELSE <<>>)
      [] action = "hold_for_review" ->
            <<"Senior recruiter review required", "Investigate red flags",
              "Request additional documentation">>
      [] action = "reject" ->
            <<"Send polite rejection email", "Keep in database for future opportunities">>

\* _estimate_success_probability without `max(0, min(100, probability))`
_estimate_success_probability_unclamped(score, confidence, growth_score, red_flag_count) ==
    LET growth_adjustment ==
            IF GrowthAtLeast(growth_score, 750) THEN 10
            ELSE IF GrowthAtLeast(growth_score, 650) THEN 5
            ELSE 0
        red_flag_penalty == Min(red_flag_count * 5, 20)
        probability == 500 * score + 10 * (confidence - 5000)
                           + 5000 * (growth_adjustment - red_flag_penalty)
    IN  IF probability <= 0 THEN 0 - RoundDiv(0 - probability, 500)
        ELSE RoundDiv(probability, 500)

\* _estimate_success_probability followed by round(..., 1); the sum is
\* formed in units of 1/5000 point
_estimate_success_probability(score, confidence, growth_score, red_flag_count) ==
    LET growth_adjustment ==
            IF GrowthAtLeast(growth_score, 750) THEN 10
            ELSE IF GrowthAtLeast(growth_score, 650) THEN 5
            ELSE 0
        red_flag_penalty == Min(red_flag_count * 5, 20)
        probability == 500 * score + 10 * (confidence - 5000)
                           + 5000 * (growth_adjustment - red_flag_penalty)
    IN  IF probability <= 0 THEN 0
        ELSE RoundDiv(Min(100 * 5000, probability), 500)

\* the headline of _generate_recommendation_message (the figures it formats
\* are the fields of the same recommendation)
_generate_recommendation_message(action) ==
    CASE action = "immediate_interview" -> "IMMEDIATE INTERVIEW RECOMMENDED"
      [] action = "shortlist" -> "SHORTLIST FOR INTERVIEW"
      [] action = "waitlist" -> "WAITLIST"
      [] action = "hold_for_review" -> "HOLD FOR SENIOR REVIEW"
      [] action = "reject" -> "NOT RECOMMENDED"

\* _generate_interview_focus for an assessment without section_scores whose
\* insights are a dict: the number of focus areas, focus_areas[:5]
_generate_interview_focus(insights) ==
    Min(5, Min(2, Len(insights.red_flags)) + Min(2, Len(insights.weaknesses)))

_build_decision_factors(assessment_data, growth_score, ci, risk_level) ==
    [current_fit_score |-> assessment_data.total_score,
     score_range |-> <<ci.lower_bound, ci.upper_bound>>,
     confidence_level |-> assessment_data.confidence.level,
     growth_potential |-> IF Truthy(growth_score) THEN growth_score ELSE Str("not_assessed"),
     risk_level |-> risk_level,
     red_flag_count |-> Len(assessment_data.insights.red_flags),
     top_strength |->
         IF assessment_data.insights.strengths # <<>>
         THEN assessment_data.insights.strengths[1] ELSE "Not identified",
     top_weakness |->
         IF assessment_data.insights.weaknesses # <<>>
         THEN assessment_data.insights.weaknesses[1] ELSE "Not identified"]

\* generate_recommendation followed by the service's conversion to a dict.
\* assessment_data.confidence.score is divided by 100.0: a score given in
\* hundredths is the same number of ten-thousandths afterwards.
generate_recommendation(assessment_data, growth_potential_score) ==
    LET total_score == assessment_data.total_score
        confidence_level == assessment_data.confidence.level
        confidence_score == assessment_data.confidence.score
        is_rejected == assessment_data.is_rejected
        red_flags == assessment_data.insights.red_flags
        confidence_interval ==
            _calculate_confidence_interval(total_score, confidence_level, confidence_score)
        ap == _determine_action_and_priority(total_score, confidence_interval, is_rejected,
                                             Len(red_flags), growth_potential_score)
        risk_level == _assess_hiring_risk(total_score, confidence_interval,
                                          Len(red_flags), confidence_score)
    IN  [action |-> ap[1],
         priority |-> ap[2],
         message |-> _generate_recommendation_message(ap[1]),
         confidence_interval |-> confidence_interval,
         risk_level |-> risk_level,
         next_steps |-> _generate_next_steps(ap[1], total_score, Len(red_flags)),
         estimated_success_probability |->
             _estimate_success_probability(total_score, confidence_score,
                                           growth_potential_score, Len(red_flags)),
         interview_questions_focus |-> _generate_interview_focus(assessment_data.insights),
         decision_factors |->
             _build_decision_factors(assessment_data, growth_potential_score,
                                     confidence_interval, risk_level)]

(***************************************************************************)
(* MLEngineService                                                         *)
(***************************************************************************)
\* random.uniform(a, b) / random.randint(a, b): one draw; the model keeps the
\* two extreme draws ("lo" gives a, "hi" gives b)
RandomDraws == {"lo", "hi"}
Random(draw, a, b) == IF draw = "lo" THEN a ELSE b

\* _mock_evaluation without the '_mock' marker
_mock_evaluation_unmarked(draw, now) ==
    [total_score |-> Random(draw, 55, 85),
     raw_score |-> Random(draw, 55, 85),
     is_rejected |-> FALSE,
     rejection_reasons |-> <<>>,
     timestamp |-> now]

\* _mock_evaluation; scores are in points
_mock_evaluation(draw, now) ==
    [total_score |-> Random(draw, 55, 85),
     raw_score |-> Random(draw, 55, 85),
     is_rejected |-> FALSE,
     rejection_reasons |-> <<>>,
     section_scores |->
         [personal_details |-> [score |-> Random(draw, 70, 95), weight |-> 10],
          experience |-> [score |-> Random(draw, 50, 90), weight |-> 25],
          education |-> [score |-> Random(draw, 70, 95), weight |-> 15],
          skills |-> [score |-> Random(draw, 40, 85), weight |-> 25],
          salary |-> [score |-> Random(draw, 60, 100), weight |-> 10],
          cv_analysis |-> [score |-> Random(draw, 50, 80), weight |-> 15]],
     field_assessments |->
         <<[section |-> "Personal Details", field |-> "Nationality", score |-> Random(draw, 70, 100)],
           [section |-> "Personal Details", field |-> "Location", score |-> Random(draw, 60, 100)],
           [section |-> "Personal Details", field |-> "Availability", score |-> Random(draw, 70, 100)],
           [section |-> "Experience", field |-> "Total Experience", score |-> Random(draw, 50, 95)],
           [section |-> "Experience", field |-> "Industry", score |-> Random(draw, 60, 90)],
           [section |-> "Education", field |-> "Education Level", score |-> Random(draw, 70, 100)],
           [section |-> "Skills", field |-> "Required Skills", score |-> Random(draw, 40, 90)],
           [section |-> "Skills", field |-> "Preferred Skills", score |-> Random(draw, 50, 100)],
           [section |-> "Salary", field |-> "Expected Salary", score |-> Random(draw, 50, 100)]>>,
     cv_assessment |->
         [cv_score |-> Random(draw, 55, 80),
          cv_quality_score |-> Random(draw, 60, 85),
          content_relevance_score |-> Random(draw, 50, 85),
          keyword_match_score |-> Random(draw, 40, 80),
          experience_extraction_score |-> Random(draw, 60, 90),
          skills_extraction_score |-> Random(draw, 55, 85)],
     contextual_adjustments |-> <<>>,
     total_adjustment |-> 0,
     feature_interactions |-> <<>>,
     confidence |-> [level |-> "medium", score |-> 70],
     weights_used |->
         [personal_details |-> 10, experience |-> 25, education |-> 15,
          skills |-> 25, salary |-> 10, cv_analysis |-> 15],
     job_level |-> "mid",
     recommendation |-> "CONSIDER - Review specific gaps before proceeding (mock)",
     overall_explanation |-> "This is a mock evaluation - ML engine not available.",
     timestamp |-> now,
     _mock |-> TRUE]

\* [f"{prefix}: {m}" for m in messages]
Prefixed(prefix, messages) ==
    [n \in DOMAIN messages |-> prefix \o ": " \o messages[n]]

\* evaluate_candidate, the dict returned when critical data is missing
DataIncompleteResult(v, now) ==
    LET missing_fields ==
            (IF v.cand_critical # <<>> THEN Prefixed("CANDIDATE", v.cand_critical) ELSE <<>>)
            \o (IF v.job_critical # <<>> THEN Prefixed("JOB", v.job_critical) ELSE <<>>)
    IN  [total_score |-> 0,
         raw_score |-> 0,
         is_rejected |-> TRUE,
         rejection_reasons |->
             <<"INSUFFICIENT DATA FOR ASSESSMENT - Missing "
                 \o ToString(Len(missing_fields)) \o " critical field(s)">>,
         rejection_rule_code |-> Str("DATA_INCOMPLETE"),
         data_quality |->
             [candidate_completeness |-> RoundedCompleteness(v.cand_score),
              job_completeness |-> RoundedCompleteness(v.job_score),
              missing_critical_fields |-> missing_fields,
              missing_important_fields |-> v.cand_important \o v.job_important,
              status |-> "REJECTED - INCOMPLETE DATA",
              expected_accuracy |-> "0% - Unreliable assessment"],
         section_scores |-> << >>,
         field_assessments |-> <<>>,
         contextual_adjustments |-> <<>>,
         total_adjustment |-> 0,
         confidence |-> [level |-> "none", score |-> 0],
         weights_used |-> << >>,
         recommendation |-> "NOT ASSESSABLE - Complete required data fields first",
         timestamp |-> now,
         insights |->
             [strengths |-> <<>>,
              weaknesses |-> <<"Incomplete profile - missing critical data for accurate assessment">>,
              red_flags |->
                  IF v.cand_critical # <<>>
                  THEN <<[type |-> "missing_data", severity |-> "CRITICAL"]>>
                  ELSE <<>>,
              career_progression |-> "unclear",
              skill_currency_score |-> 0,
              learning_potential |-> 0,
              cultural_fit_score |-> 0,
              recommendation |-> "Complete profile with all required data before assessment",
              key_highlights |-> <<>>]]

\* the four len(candidate_data.get(key, default)) calls of the validation
\* debug logging; len(None) raises TypeError
DebugLoggingRaises(data) ==
    \/ LenRaises(GetDefault(data, "employment_history", List(<<>>)))
    \/ LenRaises(GetDefault(data, "skills", List(<<>>)))
    \/ LenRaises(GetDefault(data, "education_details", List(<<>>)))
    \/ LenRaises(GetDefault(data, "cv_text", Str("")))

\* ---- components whose code is not part of these sources ----

\* Job(**job_data), Candidate(**candidate_data), HardRejectionEngine.evaluate,
\* SmartWeightOptimizer.get_optimized_weights and an exception escaping
\* generate_recommendation: what they do for one given input.  They are
\* functions of the input, so the answer is fixed for as long as the same
\* input is evaluated.
Eligible ==
    [conversion_raises |-> FALSE, is_eligible |-> TRUE, rejection_reason |-> None,
     rejection_rule_code |-> None, rule_trace |-> <<"pass">>,
     weights_raise |-> FALSE, recommendation_raises |-> FALSE]

ComponentOutcomes ==
    {Eligible,
     [Eligible EXCEPT !.weights_raise = TRUE, !.recommendation_raises = TRUE],
     [Eligible EXCEPT !.is_eligible = FALSE,
                      !.rejection_reason = Str("Experience below minimum"),
                      !.rejection_rule_code = Str("MIN_EXPERIENCE"),
                      !.rule_trace = <<"fail">>],
     [Eligible EXCEPT !.conversion_raises = TRUE]}

\* get_optimized_weights: a weight profile and the name of the job level
get_optimized_weights(j) ==
    [weights |-> [profile |-> "mid"], job_level_name |-> Str("mid")]

\* the weights of the `except` branch, in hundredths
FallbackWeights ==
    [skills |-> 35, experience |-> 25, education |-> 15, salary |-> 15, domain |-> 10]

\* ---- evaluate_candidate, step by step ----

\* _get_confidence_level; confidence in hundredths
_get_confidence_level(confidence) ==
    IF confidence >= 80 THEN "high"
    ELSE IF confidence >= 60 THEN "medium"
    ELSE "low"

\* the state of the service between calls
EvalIdle ==
    /\ pc = "idle"
    /\ candidate_data = << >>
    /\ job_data = << >>
    /\ validation = None
    /\ rejection_result = None
    /\ comprehensive_result = None
    /\ scored = None
    /\ insights_dict = None
    /\ growth_data = None
    /\ smart_recommendation = None
    /\ result = None
    /\ failed = {}
    /\ clock = 0
    /\ prev = None
    /\ components = None

locals == <<validation, rejection_result, comprehensive_result, scored,
            insights_dict, growth_data, smart_recommendation, failed>>

\* what a call does not write
caller == <<engine_available, candidate_data, job_data, clock, prev>>

\* `except Exception: return self._mock_evaluation(...)`, and the first line
\* of evaluate_candidate when the engine is not available
ReturnMock ==
    /\ \E draw \in RandomDraws : result' = _mock_evaluation(draw, clock)
    /\ pc' = "returned"

\* evaluate_candidate is called
Call ==
    /\ pc = "idle"
    /\ \E input \in EvaluationInputs :
           /\ candidate_data' = input[1]
           /\ job_data' = input[2]
    /\ IF engine_available
       THEN pc' = "validate" /\ UNCHANGED result
       ELSE ReturnMock
    /\ UNCHANGED <<engine_available, locals, clock, prev, components>>

\* STEP 1: data completeness validation, debug logging, DATA_INCOMPLETE return
Validate ==
    /\ pc = "validate"
    /\ LET c == validate_candidate_data(candidate_data)
           j == validate_job_data(job_data)
           v == [is_candidate_valid |-> c.is_valid, cand_critical |-> c.critical_missing,
                 cand_important |-> c.important_missing, cand_score |-> c.completeness_score,
                 is_job_valid |-> j.is_valid, job_critical |-> j.critical_missing,
                 job_important |-> j.important_missing, job_score |-> j.completeness_score]
       IN  /\ validation' = v
           /\ IF DebugLoggingRaises(candidate_data)
              THEN ReturnMock
              ELSE IF ~v.is_candidate_valid \/ ~v.is_job_valid
              THEN /\ result' = DataIncompleteResult(v, clock)
                   /\ pc' = "returned"
              ELSE /\ pc' = "screen"
                   /\ UNCHANGED result
    /\ UNCHANGED <<caller, components, rejection_result, comprehensive_result, scored,
                   insights_dict, growth_data, smart_recommendation, failed>>

\* STEP 2, first part: conversion to Job / Candidate and the hard rejection engine
Screen ==
    /\ pc = "screen"
    /\ \E outcome \in (IF components = None THEN ComponentOutcomes ELSE {components}) :
           /\ components' = outcome
           /\ IF outcome.conversion_raises
              THEN ReturnMock /\ UNCHANGED rejection_result
              ELSE /\ rejection_result' =
                          [is_hard_rejected |-> ~outcome.is_eligible,
                           hard_rejection_reasons |->
                               IF Truthy(outcome.rejection_reason)
                               THEN <<outcome.rejection_reason.s>> ELSE <<>>,
                           hard_rejection_code |->
                               IF ~outcome.is_eligible THEN outcome.rejection_rule_code
                               ELSE None,
                           rule_trace |-> outcome.rule_trace]
                   /\ pc' = "assess"
                   /\ UNCHANGED result
    /\ UNCHANGED <<caller, validation, comprehensive_result, scored, insights_dict,
                   growth_data, smart_recommendation, failed>>

\* the flattened field_assessments list
RECURSIVE FieldAssessments(_, _)
FieldAssessments(sections, i) ==
    IF i > Len(sections) THEN <<>>
    ELSE [n \in DOMAIN sections[i].fields |->
              [section |-> sections[i].section_name,
               field |-> sections[i].fields[n].field_name,
               score |-> sections[i].fields[n].score]]
         \o FieldAssessments(sections, i + 1)

\* section_scores, keyed by section name
SectionScores(sections) ==
    LET Named(name) == CHOOSE sec \in Range(sections) : sec.section_name = name
    IN  [name \in {sections[n].section_name : n \in DOMAIN sections} |->
            [score |-> Named(name).total_score,
             weight |-> Named(name).weight,
             match_level |-> Named(name).match_level]]

\* the contextual adjustments: <<rule, points>> pairs
ContextualAdjustments(comp, section_scores) ==
    (IF comp.total_score >= 80 /\ section_scores["skills"].score >= 90
     THEN <<[rule |-> "Strong skills match bonus", points |-> 3]>> ELSE <<>>)
    \o (IF section_scores["experience"].score >= 85
        THEN <<[rule |-> "Industry experience bonus", points |-> 2]>> ELSE <<>>)
    \o (IF comp.cv_assessment # None /\ comp.cv_assessment.cv_score >= 80
        THEN <<[rule |-> "CV quality bonus", points |-> 2]>> ELSE <<>>)

\* STEP 2, second part: comprehensive assessment, weights, section scores,
\* contextual adjustments and the adjusted score.  Each local variable of the
\* code is assigned once; \E over a singleton binds its value once.
Assess ==
    /\ pc = "assess"
    /\ LET cv_text == GetDefault(candidate_data, "cv_text", Str(""))
       IN  IF AssessRaises(candidate_data, job_data, cv_text)
           THEN ReturnMock /\ UNCHANGED <<comprehensive_result, scored>>
           ELSE \E comp \in {assess(candidate_data, job_data, cv_text, clock)} :
                \E section_scores \in {SectionScores(comp.sections)} :
                \E contextual_adjustments \in {ContextualAdjustments(comp, section_scores)} :
                \E optimized \in {get_optimized_weights(job_data)} :
                LET total_adjustment ==
                        SumSeq([n \in DOMAIN contextual_adjustments |->
                                   contextual_adjustments[n].points])
                    hard == rejection_result.is_hard_rejected
                IN  /\ comprehensive_result' = comp
                    /\ scored' =
                           [weights |-> IF components.weights_raise
                                        THEN FallbackWeights ELSE optimized.weights,
                            designation |-> IF components.weights_raise
                                            THEN GetDefault(job_data, "designation", Str("mid"))
                                            ELSE optimized.job_level_name,
                            section_scores |-> section_scores,
                            field_assessments |-> FieldAssessments(comp.sections, 1),
                            cv_assessment_data |-> comp.cv_assessment,
                            contextual_adjustments |-> contextual_adjustments,
                            total_adjustment |-> total_adjustment,
                            adjusted_score |->
                                IF hard THEN 0
                                ELSE Min(100, Max(0, comp.total_score + total_adjustment)),
                            recommendation |->
                                IF hard THEN "NOT RECOMMENDED - Hard rejection criteria met"
                                ELSE comp.recommendation,
                            all_rejection_reasons |->
                                IF hard
                                THEN rejection_result.hard_rejection_reasons
                                         \o comp.rejection_reasons
                                ELSE comp.rejection_reasons,
                            is_rejected |-> hard \/ comp.is_rejected]
                    /\ pc' = "insights"
                    /\ UNCHANGED result
    /\ UNCHANGED <<caller, components, validation, rejection_result, insights_dict,
                   growth_data, smart_recommendation, failed>>

\* the insights_dict of the `except` branch; scores in tenths
DefaultInsights(recommendation) ==
    [strengths |-> <<>>, weaknesses |-> <<>>, red_flags |-> <<>>,
     career_progression |-> "unclear",
     skill_currency_score |-> 500, learning_potential |-> 500, cultural_fit_score |-> 500,
     recommendation |-> recommendation, key_highlights |-> <<>>]

\* candidate insights whose exception escapes to the outer handler
InsightsNotIsolated ==
    /\ pc = "insights"
    /\ IF InsightsRaise(candidate_data, job_data)
       THEN /\ ReturnMock
            /\ failed' = failed \cup {"insights"}
            /\ UNCHANGED insights_dict
       ELSE /\ insights_dict' =
                   generate_insights(candidate_data, job_data,
                                     [total_score |-> scored.adjusted_score,
                                      is_rejected |-> scored.is_rejected,
                                      section_scores |-> scored.section_scores])
            /\ pc' = "growth"
            /\ UNCHANGED <<failed, result>>
    /\ UNCHANGED <<caller, components, validation, rejection_result, comprehensive_result,
                   scored, growth_data, smart_recommendation>>

\* candidate insights, in their try / except
Insights ==
    /\ pc = "insights"
    /\ LET assessment_data ==
               [total_score |-> scored.adjusted_score,
                is_rejected |-> scored.is_rejected,
                section_scores |-> scored.section_scores]
       IN  IF InsightsRaise(candidate_data, job_data)
           THEN /\ insights_dict' = DefaultInsights(scored.recommendation)
                /\ failed' = failed \cup {"insights"}
           ELSE /\ insights_dict' = generate_insights(candidate_data, job_data, assessment_data)
                /\ UNCHANGED failed
    /\ pc' = "growth"
    /\ UNCHANGED <<caller, components, validation, rejection_result, comprehensive_result,
                   scored, growth_data, smart_recommendation, result>>

\* STEP 3: growth potential analysis, in its try / except
Growth ==
    /\ pc = "growth"
    /\ IF GrowthRaises(candidate_data, job_data)
       THEN /\ growth_data' = DefaultGrowth
            /\ failed' = failed \cup {"growth"}
       ELSE /\ growth_data' = analyze(candidate_data, job_data, scored.adjusted_score, clock)
            /\ UNCHANGED failed
    /\ pc' = "recommend"
    /\ UNCHANGED <<caller, components, validation, rejection_result, comprehensive_result,
                   scored, insights_dict, smart_recommendation, result>>

\* the smart_recommendation of the `except` branch; scores in tenths
FallbackRecommendation(adjusted_score, recommendation) ==
    [action |-> "shortlist",
     priority |-> "medium",
     message |-> recommendation,
     confidence_interval |->
         [point_estimate |-> 10 * adjusted_score,
          lower_bound |-> 10 * Max(0, adjusted_score - 5),
          upper_bound |-> 10 * Min(100, adjusted_score + 5),
          margin_of_error |-> 50,
          confidence_level |-> 90],
     risk_level |-> "medium",
     next_steps |-> <<"Review assessment details">>,
     estimated_success_probability |-> 10 * adjusted_score,
     interview_questions_focus |-> 0,
     decision_factors |-> << >>]

\* the dict returned at the end of the normal path
NormalResult(v, rejection, comp, sc, insights, growth, recommendation) ==
    LET assessment_quality ==
            _estimate_assessment_quality(v.cand_score, v.job_score,
                                         Len(v.cand_critical), Len(v.job_critical))
    IN  [total_score |-> sc.adjusted_score,
         raw_score |-> comp.total_score,
         is_rejected |-> sc.is_rejected,
         rejection_reasons |-> sc.all_rejection_reasons,
         rejection_rule_code |-> rejection.hard_rejection_code,
         data_quality |->
             [candidate_completeness |-> RoundedCompleteness(v.cand_score),
              job_completeness |-> RoundedCompleteness(v.job_score),
              missing_important_fields |-> v.cand_important \o v.job_important,
              assessment_quality |-> assessment_quality.quality,
              expected_accuracy |-> assessment_quality.accuracy,
              confidence_level |-> assessment_quality.confidence],
         section_scores |-> sc.section_scores,
         field_assessments |-> sc.field_assessments,
         cv_assessment |-> sc.cv_assessment_data,
         contextual_adjustments |-> sc.contextual_adjustments,
         total_adjustment |-> sc.total_adjustment,
         feature_interactions |-> <<>>,
         confidence |-> [level |-> _get_confidence_level(comp.confidence_score),
                         score |-> comp.confidence_score],
         weights_used |-> sc.weights,
         job_level |-> sc.designation,
         recommendation |-> sc.recommendation,
         overall_explanation |-> comp.recommendation,
         rule_trace |-> rejection.rule_trace,
         timestamp |-> comp.timestamp,
         insights |-> insights,
         growth_potential |-> growth,
         smart_recommendation |-> recommendation]

\* STEP 4: smart recommendation, in its try / except, and the return
Recommend ==
    /\ pc = "recommend"
    /\ LET current_assessment ==
               [total_score |-> 10 * scored.adjusted_score,
                confidence |->
                    [level |-> _get_confidence_level(comprehensive_result.confidence_score),
                     score |-> comprehensive_result.confidence_score],
                is_rejected |-> scored.is_rejected,
                insights |-> insights_dict]
           smart_rec ==
               IF components.recommendation_raises
               THEN FallbackRecommendation(scored.adjusted_score, scored.recommendation)
               ELSE generate_recommendation(current_assessment,
                                            Num(growth_data.growth_potential_score))
       IN  /\ smart_recommendation' = smart_rec
           /\ failed' = IF components.recommendation_raises
                        THEN failed \cup {"recommendation"} ELSE failed
           /\ result' = NormalResult(validation, rejection_result, comprehensive_result,
                                     scored, insights_dict, growth_data, smart_rec)
    /\ pc' = "returned"
    /\ UNCHANGED <<caller, components, validation, rejection_result, comprehensive_result,
                   scored, insights_dict, growth_data>>

\* time passes between two calls
Tick ==
    /\ pc = "returned"
    /\ prev = None
    /\ clock < MaxClock
    /\ clock' = clock + 1
    /\ UNCHANGED <<engine_available, pc, candidate_data, job_data, locals, result, prev,
                   components>>

\* evaluate_candidate is called again with the same arguments
Repeat ==
    /\ pc = "returned"
    /\ prev = None
    /\ prev' = result
    /\ validation' = None
    /\ rejection_result' = None
    /\ comprehensive_result' = None
    /\ scored' = None
    /\ insights_dict' = None
    /\ growth_data' = None
    /\ smart_recommendation' = None
    /\ failed' = {}
    /\ IF engine_available
       THEN pc' = "validate" /\ UNCHANGED result
       ELSE ReturnMock
    /\ UNCHANGED <<engine_available, candidate_data, job_data, clock, components>>

\* the variables of the other operations, at rest
CIIdle == ci_in = None /\ ci_out = None
CacheIdle == embedding_model = "none" /\ cache = <<>> /\ threads = << >> /\ next_key = 1
RankIdle == candidates = <<>> /\ ranking_criteria = "overall_score" /\ ranked = None
MatchIdle == matcher = None /\ match_in = None /\ match_out = None
BatchIdle == applications_table = <<>> /\ request_data = None /\ response = None
ValIdle == val_in = None /\ val_out = None

MatrixIdle == comparison = None

GrowthIdle == growth_in = None /\ growth_out = None

RecIdle == rec_in = None /\ rec_out = None

Init ==
    /\ engine_available \in BOOLEAN
    /\ EvalIdle
    /\ GrowthIdle
    /\ MatrixIdle
    /\ ValIdle
    /\ RecIdle
    /\ BatchIdle
    /\ MatchIdle
    /\ CIIdle /\ CacheIdle /\ RankIdle

Next ==
    \/ Call /\ UNCHANGED <<ci_vars, cache_vars, rank_vars, match_vars, batch_vars, rec_vars, val_vars, matrix_vars, growth_vars>>
    \/ Validate /\ UNCHANGED <<ci_vars, cache_vars, rank_vars, match_vars, batch_vars, rec_vars, val_vars, matrix_vars, growth_vars>>
    \/ Screen /\ UNCHANGED <<ci_vars, cache_vars, rank_vars, match_vars, batch_vars, rec_vars, val_vars, matrix_vars, growth_vars>>
    \/ Assess /\ UNCHANGED <<ci_vars, cache_vars, rank_vars, match_vars, batch_vars, rec_vars, val_vars, matrix_vars, growth_vars>>
    \/ Insights /\ UNCHANGED <<ci_vars, cache_vars, rank_vars, match_vars, batch_vars, rec_vars, val_vars, matrix_vars, growth_vars>>
    \/ Growth /\ UNCHANGED <<ci_vars, cache_vars, rank_vars, match_vars, batch_vars, rec_vars, val_vars, matrix_vars, growth_vars>>
    \/ Recommend /\ UNCHANGED <<ci_vars, cache_vars, rank_vars, match_vars, batch_vars, rec_vars, val_vars, matrix_vars, growth_vars>>
    \/ Tick /\ UNCHANGED <<ci_vars, cache_vars, rank_vars, match_vars, batch_vars, rec_vars, val_vars, matrix_vars, growth_vars>>
    \/ Repeat /\ UNCHANGED <<ci_vars, cache_vars, rank_vars, match_vars, batch_vars, rec_vars, val_vars, matrix_vars, growth_vars>>

Spec == Init /\ [][Next]_vars

(***************************************************************************)
(* Properties of evaluate_candidate (specification Spec)                   *)
(***************************************************************************)
Returned == pc = "returned"

IsMock(r) == "_mock" \in DOMAIN r /\ r._mock

\* the critical fields the validator reports missing for the current arguments
MissingCritical ==
    validate_candidate_data(candidate_data).critical_missing
        \o validate_job_data(job_data).critical_missing

IsDataIncomplete(r) ==
    /\ "rejection_rule_code" \in DOMAIN r
    /\ r.rejection_rule_code = Str("DATA_INCOMPLETE")
    /\ r.is_rejected
    /\ r.total_score = 0
    /\ r.rejection_reasons # <<>>
    /\ "missing_critical_fields" \in DOMAIN r.data_quality
    /\ Len(r.data_quality.missing_critical_fields) = Len(MissingCritical)

\* C1: with the engine available, a call whose candidate or job lacks at
\* least one CRITICAL field returns the DATA_INCOMPLETE rejection
\* (rejection_rule_code 'DATA_INCOMPLETE', is_rejected, total_score 0,
\* non-empty rejection_reasons, one missing_critical_fields entry per missing
\* critical field), whatever the other fields hold.
C1_CriticalMissingIsDataIncomplete ==
    (engine_available /\ Returned /\ MissingCritical # <<>>) => IsDataIncomplete(result)

\* C2: every returned result with is_rejected = true has total_score = 0
\* and a non-empty rejection_reasons list.
C2_RejectedHasZeroScoreAndReasons ==
    (Returned /\ result.is_rejected) =>
        (result.total_score = 0 /\ result.rejection_reasons # <<>>)

\* the exceptions that reach the outer `except Exception` for the current arguments
EvaluationRaises ==
    \/ DebugLoggingRaises(candidate_data)
    \/ /\ MissingCritical = <<>>
       /\ \/ components.conversion_raises
          \/ AssessRaises(candidate_data, job_data,
                          GetDefault(candidate_data, "cv_text", Str("")))

\* C3: evaluate_candidate always returns a result; the result carries
\* _mock = true exactly when the engine is not loaded or an exception was
\* raised inside the pipeline, and no result of the real path carries _mock.
C3_MockExactlyOnFailure ==
    Returned =>
        /\ result # None
        /\ IsMock(result) <=> (~engine_available \/ EvaluationRaises)
        /\ ~IsMock(result) => "_mock" \notin DOMAIN result

C3_Witness ==
    /\ Returned /\ engine_available /\ IsMock(result)
    /\ MissingCritical = <<>> /\ ~DebugLoggingRaises(candidate_data)

\* the result of the normal path
IsNormal(r) == "smart_recommendation" \in DOMAIN r

\* adjusted score, raw score, section scores and rejection flag as the
\* scorer and the hard rejection outcome alone determine them
CoreScore ==
    LET comp == assess(candidate_data, job_data,
                       GetDefault(candidate_data, "cv_text", Str("")), result.timestamp)
        section_scores == SectionScores(comp.sections)
        adjustments == ContextualAdjustments(comp, section_scores)
        total_adjustment == SumSeq([n \in DOMAIN adjustments |-> adjustments[n].points])
    IN  [total_score |-> IF components.is_eligible
                         THEN Min(100, Max(0, comp.total_score + total_adjustment)) ELSE 0,
         raw_score |-> comp.total_score,
         section_scores |-> section_scores,
         is_rejected |-> ~components.is_eligible \/ comp.is_rejected]

\* C4: when insight generation, growth analysis or the smart recommendation
\* raises, that payload alone is replaced by its default (insights: empty
\* lists and three scores of 50.0; growth: every score 50.0 and tier
\* 'not_assessed'; recommendation: the fallback payload), the steps that did
\* not raise deliver their own payload, and the result is a real, non-mock
\* result with the total_score, raw_score, section_scores and is_rejected
\* that the scoring alone determines.
C4_EnhancementFailuresAreIsolated ==
    (Returned /\ failed # {}) =>
        /\ IsNormal(result) /\ ~IsMock(result)
        /\ result.total_score = CoreScore.total_score
        /\ result.raw_score = CoreScore.raw_score
        /\ result.section_scores = CoreScore.section_scores
        /\ result.is_rejected = CoreScore.is_rejected
        /\ IF "insights" \in failed
           THEN /\ result.insights.strengths = <<>>
                /\ result.insights.weaknesses = <<>>
                /\ result.insights.red_flags = <<>>
                /\ result.insights.skill_currency_score = 500
                /\ result.insights.learning_potential = 500
                /\ result.insights.cultural_fit_score = 500
           ELSE result.insights =
                    generate_insights(candidate_data, job_data,
                                      [total_score |-> CoreScore.total_score,
                                       is_rejected |-> CoreScore.is_rejected,
                                       section_scores |-> CoreScore.section_scores])
        /\ IF "growth" \in failed
           THEN /\ result.growth_potential.growth_potential_score = 500
                /\ result.growth_potential.learning_agility = 500
                /\ result.growth_potential.career_trajectory_score = 500
                /\ result.growth_potential.skill_acquisition_rate = 500
                /\ result.growth_potential.adaptability_score = 500
                /\ result.growth_potential.tier = "not_assessed"
           ELSE result.growth_potential =
                    analyze(candidate_data, job_data, CoreScore.total_score, result.timestamp)
        /\ IF "recommendation" \in failed
           THEN /\ result.smart_recommendation.action = "shortlist"
                /\ result.smart_recommendation.priority = "medium"
                /\ result.smart_recommendation.confidence_interval.point_estimate
                       = 10 * CoreScore.total_score
                /\ result.smart_recommendation.next_steps = <<"Review assessment details">>
           ELSE "decision_factors" \in DOMAIN result.smart_recommendation
                /\ result.smart_recommendation.decision_factors # << >>

\* exactly one of the three steps raised, the other two ran
C4_Witness ==
    /\ Returned /\ IsNormal(result)
    /\ failed = {"growth"}
    /\ result.insights.strengths # <<>>
    /\ result.growth_potential.tier = "not_assessed"

\* the top-level keys of the result of the normal path
NormalKeys ==
    {"total_score", "raw_score", "is_rejected", "rejection_reasons", "rejection_rule_code",
     "data_quality", "section_scores", "field_assessments", "cv_assessment",
     "contextual_adjustments", "total_adjustment", "feature_interactions", "confidence",
     "weights_used", "job_level", "recommendation", "overall_explanation", "rule_trace",
     "timestamp", "insights", "growth_potential", "smart_recommendation"}

\* C5: every return path of evaluate_candidate returns a dict with the
\* same set of top-level keys (the keys of the normal path).
C5_SameTopLevelKeys ==
    Returned => DOMAIN result = NormalKeys

\* C6: two calls on the same input and configuration that both return a
\* non-mock result return results identical in every field, whenever the
\* calls are made.
C6_RepeatedCallsIdentical ==
    (Returned /\ prev # None /\ ~IsMock(prev) /\ ~IsMock(result)) => result = prev

Percent(x) == x \in 0..100
PercentTenths(x) == x \in 0..1000

\* C7: every field score, section total_score, CV sub-score and overall
\* total_score of the scorer lies in [0,100] and its confidence_score in
\* [0,1]; in every result of evaluate_candidate the adjusted total_score,
\* the growth sub-scores and estimated_success_probability lie in [0,100].
C7_ScoresWithinRange ==
    /\ comprehensive_result # None =>
           /\ Percent(comprehensive_result.total_score)
           /\ Percent(comprehensive_result.confidence_score)
           /\ \A n \in DOMAIN comprehensive_result.sections :
                  LET section == comprehensive_result.sections[n]
                  IN  /\ Percent(section.total_score)
                      /\ \A m \in DOMAIN section.fields : Percent(section.fields[m].score)
           /\ comprehensive_result.cv_assessment # None =>
                  \A key \in DOMAIN comprehensive_result.cv_assessment :
                      Percent(comprehensive_result.cv_assessment[key])
    /\ Returned =>
           /\ Percent(result.total_score)
           /\ IsNormal(result) =>
                  /\ PercentTenths(result.growth_potential.growth_potential_score)
                  /\ PercentTenths(result.growth_potential.learning_agility)
                  /\ PercentTenths(result.growth_potential.career_trajectory_score)
                  /\ PercentTenths(result.growth_potential.skill_acquisition_rate)
                  /\ PercentTenths(result.growth_potential.adaptability_score)
                  /\ PercentTenths(result.smart_recommendation.estimated_success_probability)

\* a real result whose score was adjusted and whose growth analysis and
\* recommendation both ran
C7_Witness ==
    /\ Returned /\ IsNormal(result)
    /\ failed = {}
    /\ result.total_adjustment > 0
    /\ comprehensive_result.cv_assessment # None

(***************************************************************************)
(* SmartRecommendationEngine._calculate_confidence_interval, and the       *)
(* interval of the service's fallback payload (specification SpecCI)       *)
(***************************************************************************)
\* scores in tenths of a point, confidence scores in ten-thousandths
CIScores == {0, 1, 24, 25, 26, 74, 75, 100, 101, 250, 500, 745, 750, 899, 900, 975, 999, 1000}
CILevels == {"high", "medium", "low", "none", "very_high"}
CIConfidences == {0, 1, 89, 2500, 5000, 7499, 7500, 9999, 10000}
AdjustedScores == 0..100

CIInputs ==
    [kind : {"engine"}, score : CIScores, level : CILevels, confidence : CIConfidences]
        \cup [kind : {"fallback"}, adjusted_score : AdjustedScores]

InitCI ==
    /\ ci_in \in CIInputs
    /\ ci_out = None
    /\ engine_available = TRUE
    /\ EvalIdle
    /\ GrowthIdle
    /\ MatrixIdle
    /\ ValIdle
    /\ RecIdle
    /\ BatchIdle
    /\ MatchIdle
    /\ CacheIdle /\ RankIdle

\* the engine computes the interval
CalculateConfidenceInterval ==
    /\ ci_out = None
    /\ ci_in.kind = "engine"
    /\ ci_out' = _calculate_confidence_interval(ci_in.score, ci_in.level, ci_in.confidence)
    /\ UNCHANGED ci_in

\* the service builds the interval of its fallback recommendation
FallbackInterval ==
    /\ ci_out = None
    /\ ci_in.kind = "fallback"
    /\ ci_out' = FallbackRecommendation(ci_in.adjusted_score, "").confidence_interval
    /\ UNCHANGED ci_in

NextCI ==
    \/ CalculateConfidenceInterval /\ UNCHANGED <<eval_vars, cache_vars, rank_vars, match_vars, batch_vars, rec_vars, val_vars, matrix_vars, growth_vars>>
    \/ FallbackInterval /\ UNCHANGED <<eval_vars, cache_vars, rank_vars, match_vars, batch_vars, rec_vars, val_vars, matrix_vars, growth_vars>>

SpecCI == InitCI /\ [][NextCI]_vars

\* C8: for a score in [0,100], any level string and a confidence score in
\* [0,1], the interval of _calculate_confidence_interval has
\* lower_bound <= point_estimate <= upper_bound, both bounds in [0,100] and
\* a margin of error >= 0; so has the interval of the fallback payload.
C8_IntervalWellFormed ==
    ci_out # None =>
        /\ ci_out.lower_bound <= ci_out.point_estimate
        /\ ci_out.point_estimate <= ci_out.upper_bound
        /\ 0 <= ci_out.lower_bound
        /\ ci_out.upper_bound <= 1000
        /\ ci_out.margin_of_error >= 0

\* an interval of the engine that is clamped at 100, with full confidence
C8_Witness ==
    /\ ci_out # None
    /\ ci_in.kind = "engine" /\ ci_in.confidence = 10000 /\ ci_in.score = 999
    /\ ci_out.upper_bound = 1000
    /\ ci_out.lower_bound < ci_out.point_estimate

(***************************************************************************)
(* SkillMatcher._get_skill_embedding called from several threads           *)
(* (specification SpecCache).  A `with self._cache_lock:` block is one     *)
(* step; encoding happens between the two blocks, outside the lock.        *)
(***************************************************************************)
Threads == 1..MaxThreads

InitCache ==
    /\ embedding_model \in {"loaded", "none"}
    /\ cache = <<>>
    /\ threads = [t \in Threads |-> [pc |-> "idle", key |-> 0]]
    /\ next_key = 1
    /\ engine_available = TRUE
    /\ EvalIdle
    /\ GrowthIdle
    /\ MatrixIdle
    /\ ValIdle
    /\ RecIdle
    /\ BatchIdle
    /\ MatchIdle
    /\ CIIdle /\ RankIdle

\* a thread calls _get_skill_embedding with a skill whose canonical name is
\* new, or is the one requested last
CallGetSkillEmbedding(t) ==
    /\ threads[t].pc = "idle"
    /\ \E key \in {next_key - 1, next_key} \cap (1..MaxKeys) :
           /\ threads' = [threads EXCEPT ![t] = [pc |-> "called", key |-> key]]
           /\ next_key' = IF key = next_key THEN next_key + 1 ELSE next_key
    /\ UNCHANGED <<embedding_model, cache>>

\* an eviction that drops the newest n keys instead of the oldest
EvictedNewest(keys, n) == SubSeq(keys, 1, Len(keys) - Min(n, Len(keys)))

\* keys()[:n] removed from the insertion-ordered dict
Evicted(keys, n) == SubSeq(keys, Min(n, Len(keys)) + 1, Len(keys))

\* `if self.embedding_model is None: return None`, then the first locked
\* block: return on a hit, evict the oldest tenth when the cache is full
LookUp(t) ==
    /\ threads[t].pc = "called"
    /\ IF embedding_model = "none" \/ threads[t].key \in Range(cache)
       THEN /\ threads' = [threads EXCEPT ![t].pc = "idle"]
            /\ UNCHANGED cache
       ELSE /\ cache' = IF Len(cache) >= MAX_EMBEDDING_CACHE_SIZE
                        THEN Evicted(cache, MAX_EMBEDDING_CACHE_SIZE \div 10)
                        ELSE cache
            /\ threads' = [threads EXCEPT ![t].pc = "encode"]
    /\ UNCHANGED <<embedding_model, next_key>>

\* embedding_model.encode, outside the lock
Encode(t) ==
    /\ threads[t].pc = "encode"
    /\ threads' = [threads EXCEPT ![t].pc = "store"]
    /\ UNCHANGED <<embedding_model, cache, next_key>>

\* the second locked block: self._skill_embeddings_cache[canonical] = embedding
Store(t) ==
    /\ threads[t].pc = "store"
    /\ cache' = IF threads[t].key \in Range(cache) THEN cache
                ELSE Append(cache, threads[t].key)
    /\ threads' = [threads EXCEPT ![t].pc = "idle"]
    /\ UNCHANGED <<embedding_model, next_key>>

NextCache ==
    \E t \in Threads :
        \/ CallGetSkillEmbedding(t) /\ UNCHANGED <<eval_vars, ci_vars, rank_vars, match_vars, batch_vars, rec_vars, val_vars, matrix_vars, growth_vars>>
        \/ LookUp(t) /\ UNCHANGED <<eval_vars, ci_vars, rank_vars, match_vars, batch_vars, rec_vars, val_vars, matrix_vars, growth_vars>>
        \/ Encode(t) /\ UNCHANGED <<eval_vars, ci_vars, rank_vars, match_vars, batch_vars, rec_vars, val_vars, matrix_vars, growth_vars>>
        \/ Store(t) /\ UNCHANGED <<eval_vars, ci_vars, rank_vars, match_vars, batch_vars, rec_vars, val_vars, matrix_vars, growth_vars>>

SpecCache == InitCache /\ [][NextCache]_vars

\* C9: under any interleaving of concurrent _get_skill_embedding calls the
\* cache never holds more than MAX_EMBEDDING_CACHE_SIZE entries.
C9_CacheNeverExceedsMax ==
    Len(cache) <= MAX_EMBEDDING_CACHE_SIZE

(***************************************************************************)
(* CandidateRanker.rank_candidates (specification SpecRank)                *)
(* Composite scores are in tenths of a point.                              *)
(***************************************************************************)
RankingCriteria ==
    {"overall_score", "skills_match", "experience_fit", "salary_fit",
     "cultural_fit", "learning_potential"}

Flag(severity) == Dict([severity |-> Str(severity)])

SectionScore(score) == Dict([score |-> Num(score)])

\* the DATA_INCOMPLETE result of evaluate_candidate as the ranker receives it,
\* with the missing_data red flag of a candidate lacking critical fields
DataIncompleteProfile ==
    [assessment |-> Dict([total_score |-> Num(0), is_rejected |-> Num(1),
                          section_scores |-> Dict(<< >>)]),
     insights |-> Dict([red_flags |->
                            List(<<Dict([type |-> Str("missing_data"),
                                         severity |-> Str("CRITICAL")])>>),
                        cultural_fit_score |-> Num(0), learning_potential |-> Num(0),
                        skill_currency_score |-> Num(0)])]

\* candidate assessment results to rank: two with equal overall scores, one
\* with a critical red flag, one rejected, one without assessment or insights,
\* one with incomplete data
AssessedProfiles ==
    {[assessment |-> Dict([total_score |-> Num(90), is_rejected |-> Absent,
                           section_scores |-> Dict([skills |-> SectionScore(95),
                                                    experience |-> SectionScore(80),
                                                    salary |-> SectionScore(100)])]),
      insights |-> Dict([red_flags |-> List(<<>>), cultural_fit_score |-> Num(80),
                         learning_potential |-> Num(60), skill_currency_score |-> Num(70)])],
     [assessment |-> Dict([total_score |-> Num(95), is_rejected |-> Absent,
                           section_scores |-> Dict([skills |-> SectionScore(60),
                                                    experience |-> SectionScore(90),
                                                    salary |-> SectionScore(40)])]),
      insights |-> Dict([red_flags |-> List(<<Flag("high")>>), cultural_fit_score |-> Num(70),
                         learning_potential |-> Num(70), skill_currency_score |-> Num(50)])],
     [assessment |-> Dict([total_score |-> Num(88), is_rejected |-> Absent,
                           section_scores |-> Dict([skills |-> SectionScore(95),
                                                    experience |-> SectionScore(90),
                                                    salary |-> SectionScore(100)])]),
      insights |-> Dict([red_flags |-> List(<<Flag("critical"), Flag("medium")>>),
                         cultural_fit_score |-> Num(95), learning_potential |-> Num(85),
                         skill_currency_score |-> Num(70)])],
     \* is_rejected is True (1)
     [assessment |-> Dict([total_score |-> Num(0), is_rejected |-> Num(1),
                           section_scores |-> Absent]),
      insights |-> Dict([red_flags |-> Absent, cultural_fit_score |-> Absent,
                         learning_potential |-> Absent, skill_currency_score |-> Absent])],
     [assessment |-> Absent, insights |-> Absent],
     DataIncompleteProfile}

\* the list given to rank_candidates: candidate_id is the position in the list
CandidateLists ==
    UNION {[1..n -> AssessedProfiles] : n \in 0..MaxCandidates}

WithId(profile, id) ==
    [candidate_id |-> Num(id), assessment |-> profile.assessment, insights |-> profile.insights]

SeverityCount(red_flags, severity) ==
    LET Is(f) == Get(f.d, "severity") = Str(severity)
    IN  Len(SelectSeq(red_flags, Is))

NumberAt(data, key) == GetDefault(data, key, Num(0)).n

_calculate_composite_score(candidate, criteria) ==
    LET assessment == Sub(candidate, "assessment")
        insights == Sub(candidate, "insights")
        section_scores == Sub(assessment, "section_scores")
        red_flags == GetDefault(insights, "red_flags", List(<<>>)).items
        red_flag_penalty == SeverityCount(red_flags, "critical") * 15
                                + SeverityCount(red_flags, "high") * 5
    IN  CASE criteria = "overall_score" ->
                 10 * NumberAt(assessment, "total_score") - 10 * red_flag_penalty
                     + (NumberAt(insights, "cultural_fit_score") - 70)
                     + (NumberAt(insights, "learning_potential") - 70)
          [] criteria = "skills_match" ->
                 7 * NumberAt(Sub(section_scores, "skills"), "score")
                     + 3 * NumberAt(insights, "skill_currency_score")
          [] criteria = "experience_fit" ->
                 10 * NumberAt(Sub(section_scores, "experience"), "score")
          [] criteria = "salary_fit" ->
                 10 * NumberAt(Sub(section_scores, "salary"), "score")
          [] criteria = "cultural_fit" -> 10 * NumberAt(insights, "cultural_fit_score")
          [] criteria = "learning_potential" -> 10 * NumberAt(insights, "learning_potential")
          [] OTHER -> 10 * NumberAt(assessment, "total_score")

\* percentile = (rank - 1) / total, compared after multiplying by 100 * total
_calculate_tier(rank, total) ==
    LET percentile == IF total > 0 THEN 100 * (rank - 1) ELSE 0
        scale == IF total > 0 THEN total ELSE 1
    IN  IF percentile <= 10 * scale THEN "S"
        ELSE IF percentile <= 30 * scale THEN "A"
        ELSE IF percentile <= 60 * scale THEN "B"
        ELSE IF percentile <= 85 * scale THEN "C"
        ELSE "D"

\* the priority computed from the rejection flag, the rank and the score alone
InterviewPriorityIgnoringFlags(candidate, rank) ==
    LET assessment == Sub(candidate, "assessment")
        total_score == NumberAt(assessment, "total_score")
    IN  IF Truthy(Get(assessment, "is_rejected")) THEN "do_not_interview"
        ELSE IF rank <= 3 /\ total_score >= 85 THEN "urgent"
        ELSE IF rank <= 10 /\ total_score >= 75 THEN "high"
        ELSE IF total_score >= 60 THEN "medium"
        ELSE "low"

_calculate_interview_priority(candidate, rank) ==
    LET assessment == Sub(candidate, "assessment")
        insights == Sub(candidate, "insights")
        total_score == NumberAt(assessment, "total_score")
        critical_flags ==
            SeverityCount(GetDefault(insights, "red_flags", List(<<>>)).items, "critical")
    IN  IF Truthy(Get(assessment, "is_rejected")) \/ critical_flags > 0 THEN "do_not_interview"
        ELSE IF rank <= 3 /\ total_score >= 85 THEN "urgent"
        ELSE IF rank <= 10 /\ total_score >= 75 THEN "high"
        ELSE IF total_score >= 60 THEN "medium"
        ELSE "low"

\* the sort with the comparison turned round: ascending composite scores
RECURSIVE AscOrder(_, _)
AscOrder(keys, remaining) ==
    IF remaining = {} THEN <<>>
    ELSE LET best == CHOOSE i \in remaining :
                         \A j \in remaining :
                             keys[i] < keys[j] \/ (keys[i] = keys[j] /\ i <= j)
         IN  <<best>> \o AscOrder(keys, remaining \ {best})

\* scored_candidates.sort(key=composite_score, reverse=True): the positions
\* of the candidates in sorted order
SortedByComposite(composite_scores, positions) == DescOrder(composite_scores, positions)

rank_candidates(candidate_list, criteria) ==
    LET composite_scores ==
            [n \in DOMAIN candidate_list |-> _calculate_composite_score(candidate_list[n], criteria)]
        order == SortedByComposite(composite_scores, DOMAIN candidate_list)
    IN  [idx \in DOMAIN order |->
            LET candidate == candidate_list[order[idx]]
                assessment == Sub(candidate, "assessment")
                insights == Sub(candidate, "insights")
                red_flags == GetDefault(insights, "red_flags", List(<<>>)).items
                rank == idx
            IN  [candidate_id |-> Or(Get(candidate, "candidate_id"),
                                     GetDefault(candidate, "id", Num(0))).n,
                 overall_rank |-> rank,
                 total_score |-> NumberAt(assessment, "total_score"),
                 skills_score |->
                     NumberAt(Sub(Sub(assessment, "section_scores"), "skills"), "score"),
                 experience_score |->
                     NumberAt(Sub(Sub(assessment, "section_scores"), "experience"), "score"),
                 cultural_fit |-> NumberAt(insights, "cultural_fit_score"),
                 red_flag_count |-> Len(red_flags),
                 critical_red_flags |-> SeverityCount(red_flags, "critical"),
                 rank_tier |-> _calculate_tier(rank, Len(order)),
                 interview_priority |-> _calculate_interview_priority(candidate, rank)]]

InitRank ==
    /\ \E list \in CandidateLists :
           candidates = [n \in DOMAIN list |-> WithId(list[n], n)]
    /\ ranking_criteria \in RankingCriteria
    /\ ranked = None
    /\ engine_available = TRUE
    /\ EvalIdle
    /\ GrowthIdle
    /\ MatrixIdle
    /\ ValIdle
    /\ RecIdle
    /\ BatchIdle
    /\ MatchIdle
    /\ CIIdle /\ CacheIdle

RankCandidates ==
    /\ ranked = None
    /\ ranked' = List(rank_candidates(candidates, ranking_criteria))
    /\ UNCHANGED <<candidates, ranking_criteria>>

\* len([c for c in ranked_candidates if c.<field> == value])
CountWhere(ranked_candidates, field, value) ==
    Len(SelectSeq(ranked_candidates, LAMBDA c : c[field] = value))

\* generate_comparison_matrix; {} for an empty list.  The averages are kept as
\* the exact fractions num / den; of the top candidates the matrix copies the
\* rank, tier, score and priority (and the name and remarks, text that no
\* count depends on)
generate_comparison_matrix(ranked_candidates) ==
    IF Len(ranked_candidates) = 0 THEN [empty |-> TRUE]
    ELSE LET top_candidates == SubSeq(ranked_candidates, 1, Min(10, Len(ranked_candidates)))
         IN  [total_candidates |-> Len(ranked_candidates),
              compared_count |-> Len(top_candidates),
              tier_distribution |->
                  [tier \in {"S", "A", "B", "C", "D"} |->
                      CountWhere(ranked_candidates, "rank_tier", tier)],
              interview_priorities |->
                  [priority \in {"urgent", "high", "medium", "low"} |->
                      CountWhere(ranked_candidates, "interview_priority", priority)],
              top_candidates |->
                  [n \in DOMAIN top_candidates |->
                      [rank |-> top_candidates[n].overall_rank,
                       tier |-> top_candidates[n].rank_tier,
                       score |-> top_candidates[n].total_score,
                       priority |-> top_candidates[n].interview_priority]],
              average_score |->
                  [num |-> SumSeq([n \in DOMAIN ranked_candidates |->
                                      ranked_candidates[n].total_score]),
                   den |-> Len(ranked_candidates)],
              top_10_average |->
                  [num |-> SumSeq([n \in DOMAIN top_candidates |->
                                      top_candidates[n].total_score]),
                   den |-> Len(top_candidates)]]

\* the caller passes the ranked list on to generate_comparison_matrix
GenerateComparisonMatrix ==
    /\ ranked # None
    /\ comparison = None
    /\ comparison' = generate_comparison_matrix(ranked.items)

NextRank ==
    \/ RankCandidates
         /\ UNCHANGED <<eval_vars, ci_vars, cache_vars, match_vars, batch_vars, rec_vars, val_vars, matrix_vars, growth_vars>>
    \/ GenerateComparisonMatrix
         /\ UNCHANGED <<eval_vars, ci_vars, cache_vars, rank_vars, match_vars, batch_vars, rec_vars, val_vars, growth_vars>>

SpecRank == InitRank /\ [][NextRank]_vars

\* the composite score of the candidate placed at a rank
CompositeAt(n) ==
    _calculate_composite_score(candidates[ranked.items[n].candidate_id], ranking_criteria)

\* C10: rank_candidates returns exactly one entry per candidate given, the
\* overall_rank values are 1..N in order, and the composite score never
\* increases with the rank, for every ranking criterion.
C10_RanksArePermutationInScoreOrder ==
    ranked # None =>
        /\ Len(ranked.items) = Len(candidates)
        /\ \A n \in DOMAIN ranked.items : ranked.items[n].overall_rank = n
        /\ {ranked.items[n].candidate_id : n \in DOMAIN ranked.items} = DOMAIN candidates
        /\ \A m, n \in DOMAIN ranked.items : m < n => CompositeAt(m) >= CompositeAt(n)

\* three candidates whose order in the input is not the ranked order and
\* two of whom tie on the composite score
C10_Witness ==
    /\ ranked # None
    /\ Len(ranked.items) = 3
    /\ ranked.items[1].candidate_id = 3
    /\ CompositeAt(2) = CompositeAt(3)
    /\ CompositeAt(1) > CompositeAt(2)


\* the red flags of the candidate placed at a rank
RedFlagsAt(n) ==
    GetDefault(Sub(candidates[ranked.items[n].candidate_id], "insights"),
               "red_flags", List(<<>>)).items

HasCriticalFlag(n) ==
    \E m \in DOMAIN RedFlagsAt(n) : Get(RedFlagsAt(n)[m].d, "severity") = Str("critical")

\* C11: every ranked candidate with at least one red flag of critical
\* severity has interview_priority 'do_not_interview', whatever its total
\* score and its rank.
C11_CriticalFlagMeansDoNotInterview ==
    ranked # None =>
        \A n \in DOMAIN ranked.items :
            HasCriticalFlag(n) => ranked.items[n].interview_priority = "do_not_interview"

\* a candidate with a critical flag ranked first with a total score of 88,
\* which is not rejected and would otherwise be urgent
C11_Witness ==
    /\ ranked # None
    /\ Len(ranked.items) >= 2
    /\ HasCriticalFlag(1)
    /\ ranked.items[1].total_score >= 85
    /\ ~Truthy(Get(Sub(candidates[ranked.items[1].candidate_id], "assessment"), "is_rejected"))
    /\ ranked.items[1].interview_priority = "do_not_interview"


(***************************************************************************)
(* SkillMatcher: _normalize_skill, _build_lookup_maps, _get_canonical_skill,*)
(* _match_single_skill and match_skills (specification SpecMatch).         *)
(* Confidences are in ten-thousandths, weights and similarities in         *)
(* hundredths, match scores in hundredths of a point.                      *)
(***************************************************************************)
\* skill.lower().strip(), re.sub(r'[^\w\s-]', '', skill) when
\* strip_special_chars is set, and ' '.join(skill.split()), tabulated for
\* the skill names of the inputs
_normalize_skill(skill, strip_special_chars) ==
    CASE skill = "" -> ""
      [] skill = "Python" -> "python"
      [] skill = " python " -> "python"
      [] skill = "JS" -> "js"
      [] skill = "js" -> "js"
      [] skill = "JavaScript" -> "javascript"
      [] skill = "javascript" -> "javascript"
      [] skill = "ECMAScript" -> "ecmascript"
      [] skill = "ecmascript" -> "ecmascript"
      [] skill = "Node.js" -> IF strip_special_chars THEN "nodejs" ELSE "node.js"
      [] skill = "nodejs" -> "nodejs"
      [] skill = "node" -> "node"
      [] skill = "TensorFlow" -> "tensorflow"
      [] skill = "PyTorch" -> "pytorch"
      [] skill = "tensorflow" -> "tensorflow"
      [] skill = "pytorch" -> "pytorch"

\* matching_config.get('strip_special_chars', True)
StripSpecialChars(config) == config.matching.strip_special_chars

\* synonym_to_canonical[normalized]: the canonical name, as written in the
\* taxonomy, of the last synonym list with a synonym that normalizes to the
\* key; Absent when no synonym does
synonym_to_canonical(config, normalized) ==
    LET hits == {n \in DOMAIN config.synonyms :
                    \E m \in DOMAIN config.synonyms[n].synonyms :
                        _normalize_skill(config.synonyms[n].synonyms[m],
                                         StripSpecialChars(config)) = normalized}
    IN  IF hits = {} THEN Absent
        ELSE Str(config.synonyms[CHOOSE n \in hits : \A h \in hits : h <= n].canonical)

\* synonym_to_canonical.get(normalized, normalized)
_get_canonical_skill(config, skill) ==
    LET normalized == _normalize_skill(skill, StripSpecialChars(config))
        canonical == synonym_to_canonical(config, normalized)
    IN  IF canonical = Absent THEN normalized ELSE canonical.s

\* skill_to_relationships.get(canonical, []): the groups that list the skill
skill_to_relationships(config, canonical) ==
    {config.relationships[n].group :
        n \in {g \in DOMAIN config.relationships :
                  \E m \in DOMAIN config.relationships[g].skills :
                      config.relationships[g].skills[m] = canonical}}

_is_excluded_pair(config, skill1, skill2) ==
    \E n \in DOMAIN config.exclusions :
        /\ _get_canonical_skill(config, skill1) \in config.exclusions[n]
        /\ _get_canonical_skill(config, skill2) \in config.exclusions[n]

\* cosine similarity of the embeddings of the two canonical names: 1 for the
\* same name, otherwise what the embedding model gives for the pair
_calculate_semantic_similarity(config, skill1, skill2) ==
    IF ~config.matching.enable_semantic \/ ~config.embedding_model_loaded THEN 0
    ELSE IF _is_excluded_pair(config, skill1, skill2) THEN 0
    ELSE LET c1 == _get_canonical_skill(config, skill1)
             c2 == _get_canonical_skill(config, skill2)
         IN  IF c1 = c2 THEN 100
             ELSE IF {c1, c2} \in DOMAIN config.similarity THEN config.similarity[{c1, c2}]
             ELSE config.unrelated_similarity


SkillMatch(job_skill, candidate_skill, match_type, confidence, weight, is_required) ==
    [job_skill |-> job_skill, candidate_skill |-> candidate_skill, match_type |-> match_type,
     confidence |-> confidence, weight |-> weight, is_required |-> is_required]

\* best_confidence: 0.0 until a match is kept
BestConfidence(best_match) == IF best_match = None THEN 0 ELSE best_match.confidence

\* strategies 2 to 4 for one candidate skill, each keeping its match when its
\* confidence is greater than the best so far
AfterSynonym(config, job_skill, candidate_skill, is_required, best_match) ==
    LET strip == StripSpecialChars(config)
    IN  IF /\ config.matching.enable_synonym
           /\ _get_canonical_skill(config, job_skill)
                  = _get_canonical_skill(config, candidate_skill)
           /\ _normalize_skill(job_skill, strip) # _normalize_skill(candidate_skill, strip)
           /\ 9500 > BestConfidence(best_match)
        THEN SkillMatch(job_skill, candidate_skill, "synonym", 9500,
                        config.weights.synonym_match, is_required)
        ELSE best_match

AfterSemantic(config, job_skill, candidate_skill, is_required, best_match) ==
    LET semantic_sim == _calculate_semantic_similarity(config, job_skill, candidate_skill)
    IN  IF /\ config.matching.enable_semantic
           /\ semantic_sim >= config.matching.semantic_threshold
           /\ semantic_sim * 85 > BestConfidence(best_match)
        THEN SkillMatch(job_skill, candidate_skill, "semantic", semantic_sim * 85,
                        config.weights.semantic_match, is_required)
        ELSE best_match

AfterCategory(config, job_skill, candidate_skill, is_required, best_match) ==
    IF /\ config.matching.enable_category
       /\ skill_to_relationships(config, _get_canonical_skill(config, job_skill))
              \cap skill_to_relationships(config, _get_canonical_skill(config, candidate_skill))
                  # {}
       /\ 7000 > BestConfidence(best_match)
    THEN SkillMatch(job_skill, candidate_skill, "category", 7000,
                    config.weights.category_match, is_required)
    ELSE best_match

\* the loop taking an exact match only while no other match has been kept
RECURSIVE MatchFromKeepingFirst(_, _, _, _, _, _)
MatchFromKeepingFirst(config, job_skill, candidate_skills, is_required, n, best_match) ==
    IF n > Len(candidate_skills) THEN best_match
    ELSE LET candidate_skill == candidate_skills[n]
             strip == StripSpecialChars(config)
         IN  IF /\ best_match = None
                /\ _normalize_skill(job_skill, strip) = _normalize_skill(candidate_skill, strip)
             THEN SkillMatch(job_skill, candidate_skill, "exact", 10000,
                             config.weights.exact_match, is_required)
             ELSE MatchFromKeepingFirst(config, job_skill, candidate_skills, is_required, n + 1,
                     AfterCategory(config, job_skill, candidate_skill, is_required,
                       AfterSemantic(config, job_skill, candidate_skill, is_required,
                         AfterSynonym(config, job_skill, candidate_skill, is_required,
                                      best_match))))

\* the loop over candidate_skills from position n on
RECURSIVE MatchFrom(_, _, _, _, _, _)
MatchFrom(config, job_skill, candidate_skills, is_required, n, best_match) ==
    IF n > Len(candidate_skills) THEN best_match
    ELSE LET candidate_skill == candidate_skills[n]
             strip == StripSpecialChars(config)
         IN  IF _normalize_skill(job_skill, strip) = _normalize_skill(candidate_skill, strip)
             THEN SkillMatch(job_skill, candidate_skill, "exact", 10000,
                             config.weights.exact_match, is_required)
             ELSE MatchFrom(config, job_skill, candidate_skills, is_required, n + 1,
                     AfterCategory(config, job_skill, candidate_skill, is_required,
                       AfterSemantic(config, job_skill, candidate_skill, is_required,
                         AfterSynonym(config, job_skill, candidate_skill, is_required,
                                      best_match))))

_match_single_skill(config, job_skill, candidate_skills, is_required) ==
    MatchFrom(config, job_skill, candidate_skills, is_required, 1, None)

\* the matches of the job skills that have one, in the order of the job skills
RECURSIVE MatchedOf(_, _, _, _)
MatchedOf(config, job_skills, candidate_skills, is_required) ==
    IF job_skills = <<>> THEN <<>>
    ELSE LET match == _match_single_skill(config, Head(job_skills), candidate_skills,
                                          is_required)
         IN  (IF match # None THEN <<match>> ELSE <<>>)
                 \o MatchedOf(config, Tail(job_skills), candidate_skills, is_required)

\* the job skills without a match, each reported once
RECURSIVE MissingDistinctSkillsOf(_, _, _)
MissingDistinctSkillsOf(config, job_skills, candidate_skills) ==
    IF job_skills = <<>> THEN <<>>
    ELSE (IF /\ _match_single_skill(config, Head(job_skills), candidate_skills, TRUE) = None
             /\ \A n \in DOMAIN Tail(job_skills) : Tail(job_skills)[n] # Head(job_skills)
          THEN <<Head(job_skills)>> ELSE <<>>)
             \o MissingDistinctSkillsOf(config, Tail(job_skills), candidate_skills)

\* the job skills without a match, in the order of the job skills
RECURSIVE MissingSkillsOf(_, _, _)
MissingSkillsOf(config, job_skills, candidate_skills) ==
    IF job_skills = <<>> THEN <<>>
    ELSE (IF _match_single_skill(config, Head(job_skills), candidate_skills, TRUE) = None
          THEN <<Head(job_skills)>> ELSE <<>>)
             \o MissingSkillsOf(config, Tail(job_skills), candidate_skills)

\* sum(match.confidence * match.weight) / total * 100, in hundredths of a point
MatchScore(matched, total) ==
    IF total > 0
    THEN SumSeq([n \in DOMAIN matched |-> matched[n].confidence * matched[n].weight])
             \div (total * 100)
    ELSE 10000

CountOfType(matches, match_type) ==
    Cardinality({n \in DOMAIN matches : matches[n].match_type = match_type})

SkillMatchResult(matched_required, matched_preferred, missing_required, missing_preferred, total_required, total_preferred) ==
    LET required_match_score == MatchScore(matched_required, total_required)
        preferred_match_score == MatchScore(matched_preferred, total_preferred)
        all_matches == matched_required \o matched_preferred
    IN  [matched_required |-> matched_required,
         matched_preferred |-> matched_preferred,
         missing_required |-> missing_required,
         missing_preferred |-> missing_preferred,
         total_required_skills |-> total_required,
         total_preferred_skills |-> total_preferred,
         required_match_score |-> required_match_score,
         preferred_match_score |-> preferred_match_score,
         overall_skill_score |-> (required_match_score * 7 + preferred_match_score * 3) \div 10,
         match_details |->
             [exact_matches |-> CountOfType(all_matches, "exact"),
              synonym_matches |-> CountOfType(all_matches, "synonym"),
              semantic_matches |-> CountOfType(all_matches, "semantic"),
              category_matches |-> CountOfType(all_matches, "category")]]

\* the result returned when the candidate has no skills at all
NoSkillsResult(required_job_skills, preferred_job_skills) ==
    [matched_required |-> <<>>, matched_preferred |-> <<>>,
     missing_required |-> required_job_skills, missing_preferred |-> preferred_job_skills,
     total_required_skills |-> Len(required_job_skills),
     total_preferred_skills |-> Len(preferred_job_skills),
     required_match_score |-> 0, preferred_match_score |-> 0, overall_skill_score |-> 0,
     match_details |-> [exact_matches |-> 0, synonym_matches |-> 0,
                        semantic_matches |-> 0, category_matches |-> 0]]

match_skills(config, required_job_skills, preferred_job_skills, candidate_skills) ==
    IF candidate_skills = <<>>
           /\ (Len(required_job_skills) > 0 \/ Len(preferred_job_skills) > 0)
    THEN NoSkillsResult(required_job_skills, preferred_job_skills)
    ELSE SkillMatchResult(MatchedOf(config, required_job_skills, candidate_skills, TRUE),
                          MatchedOf(config, preferred_job_skills, candidate_skills, FALSE),
                          MissingSkillsOf(config, required_job_skills, candidate_skills),
                          MissingSkillsOf(config, preferred_job_skills, candidate_skills),
                          Len(required_job_skills), Len(preferred_job_skills))


\* ---- the taxonomies (skills_taxonomy.yaml), flags and inputs ----
MatchTypeWeights ==
    [exact_match |-> 100, synonym_match |-> 95, semantic_match |-> 85, category_match |-> 70]

\* canonical names already in normalized form
LowerCaseTaxonomy ==
    [synonyms |-> <<[canonical |-> "javascript", synonyms |-> <<"JS", "ECMAScript">>],
                    [canonical |-> "nodejs", synonyms |-> <<"node">>]>>,
     relationships |-> <<[group |-> "ml_frameworks", skills |-> <<"tensorflow", "pytorch">>]>>,
     exclusions |-> <<{"python", "pytorch"}>>]

\* canonical names written with upper-case letters and punctuation
MixedCaseTaxonomy ==
    [synonyms |-> <<[canonical |-> "JavaScript", synonyms |-> <<"JS", "ECMAScript">>],
                    [canonical |-> "Node.js", synonyms |-> <<"node", "nodejs">>]>>,
     relationships |-> <<[group |-> "ml_frameworks", skills |-> <<"TensorFlow", "PyTorch">>]>>,
     exclusions |-> <<>>]

\* what the embedding model gives for two different canonical names
Similarity ==
    [pair \in {{"tensorflow", "pytorch"}, {"javascript", "JavaScript"}, {"js", "javascript"},
               {"nodejs", "Node.js"}, {"python", "pytorch"}} |->
        IF pair = {"tensorflow", "pytorch"} THEN 80
        ELSE IF pair = {"python", "pytorch"} THEN 78
        ELSE 95]

MatcherConfigs ==
    { [synonyms |-> t.synonyms, relationships |-> t.relationships, exclusions |-> t.exclusions,
       weights |-> MatchTypeWeights,
       matching |-> [enable_synonym |-> syn, enable_semantic |-> sem.enabled,
                     enable_category |-> cat, semantic_threshold |-> 75,
                     strip_special_chars |-> TRUE],
       embedding_model_loaded |-> sem.loaded,
       similarity |-> Similarity, unrelated_similarity |-> 30] :
        t \in {LowerCaseTaxonomy, MixedCaseTaxonomy},
        syn \in BOOLEAN, cat \in BOOLEAN,
        sem \in {[enabled |-> TRUE, loaded |-> TRUE], [enabled |-> TRUE, loaded |-> FALSE],
                 [enabled |-> FALSE, loaded |-> TRUE]} }

SkillNames ==
    {"Python", " python ", "JS", "JavaScript", "ECMAScript", "Node.js", "TensorFlow", "PyTorch"}

CandidateSkillLists == UNION {[1..n -> SkillNames] : n \in 0..MaxCandidateSkills}

\* required skill lists: empty, single, several, with a duplicate
RequiredSkillLists ==
    {<<>>, <<"Python">>, <<"JavaScript">>, <<"JS", "Python">>, <<"Python", "Python">>,
     <<"nodejs", "TensorFlow">>, <<"JavaScript", "PyTorch", "JavaScript">>,
     <<"ECMAScript", "Node.js">>}

PreferredSkillLists == {<<>>, <<"TensorFlow", "JS", "JS">>}

InitMatch ==
    /\ matcher \in MatcherConfigs
    /\ match_in \in [required_job_skills : RequiredSkillLists,
                     preferred_job_skills : PreferredSkillLists,
                     candidate_skills : CandidateSkillLists]
    /\ match_out = None
    /\ engine_available = TRUE
    /\ EvalIdle
    /\ GrowthIdle
    /\ MatrixIdle
    /\ ValIdle
    /\ RecIdle
    /\ BatchIdle
    /\ CIIdle /\ CacheIdle /\ RankIdle

MatchSkills ==
    /\ match_out = None
    /\ match_out' = [call |-> "match_skills",
                     result |-> match_skills(matcher, match_in.required_job_skills,
                                             match_in.preferred_job_skills,
                                             match_in.candidate_skills)]
    /\ UNCHANGED <<matcher, match_in>>

\* _match_single_skill for one of the job's skills
MatchSingleSkill ==
    /\ match_out = None
    /\ \E n \in DOMAIN match_in.required_job_skills :
           match_out' = [call |-> "_match_single_skill",
                         job_skill |-> match_in.required_job_skills[n],
                         result |-> _match_single_skill(matcher,
                                        match_in.required_job_skills[n],
                                        match_in.candidate_skills, TRUE)]
    /\ UNCHANGED <<matcher, match_in>>

NextMatch ==
    \/ MatchSkills /\ UNCHANGED <<eval_vars, ci_vars, cache_vars, rank_vars, batch_vars, rec_vars, val_vars, matrix_vars, growth_vars>>
    \/ MatchSingleSkill /\ UNCHANGED <<eval_vars, ci_vars, cache_vars, rank_vars, batch_vars, rec_vars, val_vars, matrix_vars, growth_vars>>

SpecMatch == InitMatch /\ [][NextMatch]_vars


\* every job skill is the job_skill of a match or is listed as missing, never
\* both, and the two lists together are as long as the job's list
Partitioned(job_skills, matched, missing, total) ==
    /\ Len(matched) + Len(missing) = total
    /\ total = Len(job_skills)
    /\ {matched[n].job_skill : n \in DOMAIN matched} \cup Range(missing) = Range(job_skills)
    /\ {matched[n].job_skill : n \in DOMAIN matched} \cap Range(missing) = {}

IsMatchSkillsResult == match_out # None /\ match_out.call = "match_skills"

\* C12: in every result of match_skills each required job skill is in exactly
\* one of matched_required and missing_required and the lengths add up to
\* total_required_skills, and likewise for the preferred skills, also for an
\* empty candidate skill list and for job skill lists with duplicates.
C12_MatchedAndMissingPartitionJobSkills ==
    IsMatchSkillsResult =>
        /\ Partitioned(match_in.required_job_skills, match_out.result.matched_required,
                       match_out.result.missing_required,
                       match_out.result.total_required_skills)
        /\ Partitioned(match_in.preferred_job_skills, match_out.result.matched_preferred,
                       match_out.result.missing_preferred,
                       match_out.result.total_preferred_skills)

\* a required list with a duplicate, part matched and part missing, and a
\* preferred list with a duplicate that is missing twice
C12_Witness ==
    /\ IsMatchSkillsResult
    /\ match_in.required_job_skills = <<"JavaScript", "PyTorch", "JavaScript">>
    /\ Len(match_out.result.matched_required) = 2
    /\ match_out.result.missing_required = <<"PyTorch">>
    /\ match_out.result.missing_preferred = <<"JS", "JS">>
    /\ match_in.candidate_skills # <<>>


IsSingleSkillResult == match_out # None /\ match_out.call = "_match_single_skill"

\* the candidate skill at position n equals the job skill after normalization
EqualNormalized(n) ==
    _normalize_skill(match_in.candidate_skills[n], StripSpecialChars(matcher))
        = _normalize_skill(match_out.job_skill, StripSpecialChars(matcher))

\* C13: when some candidate skill equals the job skill after normalization,
\* _match_single_skill returns a match of type 'exact' with confidence 1.0,
\* wherever that skill stands in the list, whatever the other candidate skills
\* match by, and whichever strategies are enabled.
C13_ExactMatchWins ==
    (IsSingleSkillResult /\ \E n \in DOMAIN match_in.candidate_skills : EqualNormalized(n)) =>
        /\ match_out.result # None
        /\ match_out.result.match_type = "exact"
        /\ match_out.result.confidence = 10000

\* the exact skill stands second, behind a skill that matches by synonym
C13_Witness ==
    /\ IsSingleSkillResult
    /\ Len(match_in.candidate_skills) = 2
    /\ ~EqualNormalized(1)
    /\ AfterSynonym(matcher, match_out.job_skill, match_in.candidate_skills[1], TRUE, None) # None
    /\ EqualNormalized(2)
    /\ match_out.result.match_type = "exact"
    /\ match_out.result.candidate_skill = match_in.candidate_skills[2]


\* the names a taxonomy entry registers, normalized: its listed synonyms, and
\* its canonical name
ListedSynonyms(config, entry) ==
    {_normalize_skill(entry.synonyms[m], StripSpecialChars(config)) : m \in DOMAIN entry.synonyms}

CanonicalName(config, entry) == _normalize_skill(entry.canonical, StripSpecialChars(config))

\* two skills that differ as normalized strings and that one entry of the
\* taxonomy registers as the same skill: one is a listed synonym, the other is
\* the canonical name or another listed synonym
RegisteredAsSameSkill(config, skill1, skill2) ==
    LET strip == StripSpecialChars(config)
        normalized1 == _normalize_skill(skill1, strip)
        normalized2 == _normalize_skill(skill2, strip)
    IN  /\ normalized1 # normalized2
        /\ \E n \in DOMAIN config.synonyms :
              LET listed == ListedSynonyms(config, config.synonyms[n])
                  canonical == CanonicalName(config, config.synonyms[n])
              IN  \/ normalized1 \in listed /\ normalized2 \in listed \cup {canonical}
                  \/ normalized2 \in listed /\ normalized1 \in listed \cup {canonical}

\* C14: with synonym matching enabled, when the job skill and a candidate
\* skill differ as normalized strings but the taxonomy registers them as the
\* same skill, and no candidate skill matches exactly, _match_single_skill
\* returns a match of type 'synonym' with confidence 0.95, for every taxonomy.
C14_RegisteredSynonymMatches ==
    ( /\ IsSingleSkillResult
      /\ matcher.matching.enable_synonym
      /\ \A n \in DOMAIN match_in.candidate_skills : ~EqualNormalized(n)
      /\ \E n \in DOMAIN match_in.candidate_skills :
             RegisteredAsSameSkill(matcher, match_out.job_skill, match_in.candidate_skills[n]) )
    => /\ match_out.result # None
       /\ match_out.result.match_type = "synonym"
       /\ match_out.result.confidence = 9500


\* ---------------------------------------------------------------------------
\* AssessmentViewSet.batch_evaluate (backend/apps/assessments/views.py),
\* specification SpecBatch
\* ---------------------------------------------------------------------------

\* ids of the rows of the jobs table
JobIds == {1, 2}

\* the relations of CandidateProfile: its forward relation and the
\* related_name of every model with a foreign key to it
CandidateRelations ==
    {"user", "work_experiences", "education_history", "major_projects",
     "honors_and_awards", "it_skill_certifications", "applications"}

\* the lookups after candidate__ that batch_evaluate gives to prefetch_related
BatchPrefetchLookups ==
    <<"work_experiences", "education", "certifications", "skills", "major_projects",
      "honors_and_awards">>

\* Application.objects.filter(job=job), then filter(id__in=application_ids)
\* when application_ids is given and not empty
SelectedApplications(table, job_id, application_ids) ==
    LET selected(row) ==
            /\ row.job = job_id
            /\ application_ids # <<>> => row.id \in Range(application_ids)
    IN  SelectSeq(table, selected)

\* for application in applications: the queryset is run and, when it has a
\* row, prefetch_related follows each lookup from the row's candidate; a name
\* that is no relation of CandidateProfile raises
PrefetchRaises(applications) ==
    /\ applications # <<>>
    /\ \E n \in DOMAIN BatchPrefetchLookups : BatchPrefetchLookups[n] \notin CandidateRelations

\* the entry the loop body appends for one application: to_ml_engine_format
\* or the evaluation raising is caught
ResultEntry(application) ==
    IF application.raises
    THEN [application_id |-> application.id, status |-> "error"]
    ELSE [application_id |-> application.id, total_score |-> application.result.total_score,
          is_rejected |-> application.result.is_rejected, status |-> "success"]

\* x.get('total_score', 0)
TotalScoreKey(entry) == IF entry.status = "success" THEN entry.total_score ELSE 0

\* Application.objects.bulk_update(applications_to_update, ...)
BulkUpdated(table, applications_to_update) ==
    [n \in DOMAIN table |->
        IF \E m \in DOMAIN applications_to_update : applications_to_update[m].id = table[n].id
        THEN [table[n] EXCEPT !.assessment_score = table[n].result.total_score,
                              !.assessment_data = table[n].result,
                              !.assessed = TRUE]
        ELSE table[n]]

\* the loop, the bulk update and the sorted response
BatchResults(table, applications) ==
    LET results == [n \in DOMAIN applications |-> ResultEntry(applications[n])]
        not_raising(application) == ~application.raises
        applications_to_update == SelectSeq(applications, not_raising)
        order == DescOrder([n \in DOMAIN results |-> TotalScoreKey(results[n])],
                           DOMAIN results)
    IN  [response |-> [status |-> 200, total_evaluated |-> Len(results),
                       results |-> [n \in DOMAIN order |-> results[order[n]]]],
         applications_table |-> BulkUpdated(table, applications_to_update)]

batch_evaluate(table, data) ==
    IF data.job_id = 0
    THEN [response |-> [status |-> 400, detail |-> "job_id is required."],
          applications_table |-> table]
    ELSE IF data.job_id \notin JobIds
    THEN [response |-> [status |-> 404], applications_table |-> table]
    ELSE IF PrefetchRaises(SelectedApplications(table, data.job_id, data.application_ids))
    THEN [response |-> [status |-> 500, raised |-> "AttributeError"],
          applications_table |-> table]
    ELSE BatchResults(table, SelectedApplications(table, data.job_id, data.application_ids))

\* what evaluate_candidate returns for an application's candidate
EvaluationResults == [total_score : {55, 82}, is_rejected : BOOLEAN]

\* the rows of the applications table, not yet assessed; raises says whether
\* evaluating the application raises
ApplicationTables ==
    UNION { { [n \in 1..len |->
                   [id |-> n, job |-> rows[n].job, raises |-> rows[n].raises,
                    result |-> rows[n].result, assessment_score |-> None,
                    assessment_data |-> None, assessed |-> FALSE]] :
              rows \in [1..len -> [job : JobIds, raises : BOOLEAN,
                                   result : EvaluationResults]] } :
            len \in 0..MaxApplications }

\* request.data: job_id 0 and application_ids <<>> also stand for a key that
\* is not given
InitBatch ==
    /\ applications_table \in ApplicationTables
    /\ request_data \in [job_id : {0, 1, 3}, application_ids : {<<>>, <<1>>, <<2, 1>>}]
    /\ response = None
    /\ engine_available = TRUE
    /\ EvalIdle
    /\ GrowthIdle
    /\ MatrixIdle
    /\ ValIdle
    /\ RecIdle
    /\ CIIdle /\ CacheIdle /\ RankIdle /\ MatchIdle

BatchEvaluate ==
    /\ response = None
    /\ \E outcome \in {batch_evaluate(applications_table, request_data)} :
           /\ response' = outcome.response
           /\ applications_table' = outcome.applications_table
    /\ UNCHANGED request_data

NextBatch ==
    /\ BatchEvaluate
    /\ UNCHANGED <<eval_vars, ci_vars, cache_vars, rank_vars, match_vars, rec_vars, val_vars, matrix_vars, growth_vars>>

SpecBatch == InitBatch /\ [][NextBatch]_vars

\* the applications of the request's job that the request selects
RequestedApplications ==
    SelectedApplications(applications_table, request_data.job_id, request_data.application_ids)

\* C15: batch_evaluate answers with exactly one entry per application of the
\* job; the entry of an application whose evaluation raised has status
\* 'error', and every other application is evaluated and its assessment is
\* persisted.
C15_OneEntryPerApplication ==
    (response # None /\ request_data.job_id \in JobIds) =>
        /\ response.status = 200
        /\ Len(response.results) = Len(RequestedApplications)
        /\ \A n \in DOMAIN RequestedApplications :
              LET application == RequestedApplications[n]
              IN  /\ \E m \in DOMAIN response.results :
                         /\ response.results[m].application_id = application.id
                         /\ response.results[m].status = "error" <=> application.raises
                  /\ ~application.raises =>
                         /\ application.assessed
                         /\ application.assessment_score = application.result.total_score


\* ---------------------------------------------------------------------------
\* Claims about the evaluate_candidate pipeline (specification Spec)
\* ---------------------------------------------------------------------------

\* the candidate's expected salary is more than 25% above the job's maximum
ExpectsFarAboveMaximum ==
    /\ Get(candidate_data, "expected_salary").k = "num"
    /\ Get(job_data, "salary_max").k = "num"
    /\ Get(job_data, "salary_max").n > 0
    /\ 4 * Get(candidate_data, "expected_salary").n > 5 * Get(job_data, "salary_max").n

\* the result of the full pipeline, its insights step included
FullResult == Returned /\ IsNormal(result) /\ ~IsMock(result) /\ "insights" \notin failed

ExpectedSalaryFieldIs40 ==
    \E n \in DOMAIN result.field_assessments :
        /\ result.field_assessments[n].field = "expected_salary"
        /\ result.field_assessments[n].score = 40

\* C16: for a candidate whose expected salary exceeds the job's maximum by
\* more than 25%, given in the format the pipeline receives, the result of
\* evaluate_candidate has an expected-salary field score of 40 and a red flag
\* of type salary_mismatch with severity high in insights.red_flags.
C16_SalaryMismatchScoredAndFlagged ==
    (FullResult /\ ExpectsFarAboveMaximum) =>
        /\ ExpectedSalaryFieldIs40
        /\ \E n \in DOMAIN result.insights.red_flags :
               /\ result.insights.red_flags[n].type = "salary_mismatch"
               /\ result.insights.red_flags[n].severity = SEV_HIGH


\* the candidate has no skill in any of its skill lists and the job requires
\* at least one skill
NoSkillsAgainstRequiredSkills ==
    /\ CandidateSkills(candidate_data) = {}
    /\ ~Truthy(GetDefault(candidate_data, "it_skills", List(<<>>)))
    /\ GetDefault(job_data, "required_skills", List(<<>>)).k = "list"
    /\ GetDefault(job_data, "required_skills", List(<<>>)).items # <<>>

\* C17: for a candidate with no skills at all and a job with a non-empty
\* required-skills list, the skills section that the pipeline returns as
\* section_scores['skills'] has score 0 and names every required skill as
\* missing.
C17_NoSkillsScoresZero ==
    (Returned /\ IsNormal(result) /\ ~IsMock(result) /\ NoSkillsAgainstRequiredSkills) =>
        /\ result.section_scores.skills.score = 0
        /\ Range(MissingRequiredNamed(candidate_data, job_data))
               = Range(Get(job_data, "required_skills").items)


\* ---------------------------------------------------------------------------
\* SmartRecommendationEngine.generate_recommendation called with an assessment
\* of either shape (specification SpecRec).  Scores are in tenths of a point,
\* a confidence score given on the 0-100 scale is in hundredths.
\* ---------------------------------------------------------------------------

\* a red flag as the service serialises it, and as the test script writes it
DictRedFlag ==
    Dict([type |-> Str("job_hopping"), severity |-> Str("medium"),
          description |-> Str("Frequent job changes")])

StringRedFlag == Str("Significant skill gap")

\* rf.get(...) in _generate_next_steps on a red flag that is not a dict
\* raises AttributeError: for red_flags[:2] of an immediate interview below
\* 90, red_flags[0] of a shortlist, red_flags[:3] of a hold for review
NextStepsRaise(action, score, red_flags) ==
    LET NotDictAmong(limit) ==
            \E n \in 1..Min(limit, Len(red_flags)) : red_flags[n].k # "dict"
    IN  \/ action = "immediate_interview" /\ score < 900 /\ NotDictAmong(2)
        \/ action = "shortlist" /\ red_flags # <<>> /\ NotDictAmong(1)
        \/ action = "hold_for_review" /\ NotDictAmong(3)

\* _generate_interview_focus for an assessment without section_scores whose
\* insights are a list of strings: red flags that are no dicts are skipped
FlatInterviewFocus(assessment_data) ==
    LET dict_flags == {n \in 1..Min(2, Len(assessment_data.red_flags)) :
                           assessment_data.red_flags[n].k = "dict"}
        weaknesses == {n \in 1..Min(2, Len(assessment_data.insights)) :
                           assessment_data.insights[n] # ""}
    IN  Min(5, Cardinality(dict_flags) + Cardinality(weaknesses))

\* _build_decision_factors for insights that are not a dict
FlatDecisionFactors(assessment_data, growth_score, ci, risk_level) ==
    [current_fit_score |-> assessment_data.overall_score,
     score_range |-> <<ci.lower_bound, ci.upper_bound>>,
     confidence_level |-> "unknown",
     growth_potential |-> IF Truthy(growth_score) THEN growth_score ELSE Str("not_assessed"),
     risk_level |-> risk_level,
     red_flag_count |-> Len(assessment_data.red_flags),
     top_strength |->
         IF assessment_data.strong_sections # <<>>
         THEN assessment_data.strong_sections[1] ELSE "Not identified",
     top_weakness |->
         IF assessment_data.weak_sections # <<>>
         THEN assessment_data.weak_sections[1] ELSE "Not identified"]

\* generate_recommendation for the flat shape: overall_score for total_score,
\* no 'confidence' dict (level 'medium', score from confidence_score / 100.0),
\* no is_rejected, insights a list and red_flags at the top level
generate_recommendation_flat(assessment_data, growth_potential_score) ==
    LET total_score == assessment_data.overall_score
        confidence_score == assessment_data.confidence_score
        red_flags == assessment_data.red_flags
        confidence_interval ==
            _calculate_confidence_interval(total_score, "medium", confidence_score)
        ap == _determine_action_and_priority(total_score, confidence_interval, FALSE,
                                             Len(red_flags), growth_potential_score)
        risk_level == _assess_hiring_risk(total_score, confidence_interval,
                                          Len(red_flags), confidence_score)
    IN  IF NextStepsRaise(ap[1], total_score, red_flags)
        THEN [k |-> "raised", exception |-> "AttributeError"]
        ELSE [k |-> "returned",
              recommendation |->
                  [action |-> ap[1],
                   priority |-> ap[2],
                   message |-> _generate_recommendation_message(ap[1]),
                   confidence_interval |-> confidence_interval,
                   risk_level |-> risk_level,
                   next_steps |-> _generate_next_steps(ap[1], total_score, Len(red_flags)),
                   estimated_success_probability |->
                       _estimate_success_probability(total_score, confidence_score,
                                                     growth_potential_score, Len(red_flags)),
                   interview_questions_focus |-> FlatInterviewFocus(assessment_data),
                   decision_factors |->
                       FlatDecisionFactors(assessment_data, growth_potential_score,
                                           confidence_interval, risk_level)]]

\* the scores of the assessments, in points
RecScores == {0, 35, 39, 40, 55, 60, 64, 65, 67, 69, 70, 78, 79, 80, 85, 89, 90, 100}

\* weighted sums of the analyzer's sub-scores, in hundredths of a point
RawGrowthScores == {4000, 5000, 6400, 6500, 7000, 7496, 7500, 8500}

\* what GrowthPotentialAnalyzer.analyze reports for a weighted sum and the
\* current score: the rounded growth score, in tenths, and the tier
GrowthAnalysis(growth_score, current_score) ==
    [growth_potential_score |-> RoundDiv(growth_score, 10),
     tier |-> _determine_tier(growth_score, current_score)]

Flags(flag, n) == [m \in 1..n |-> flag]

\* assessments as the service builds them
NestedAssessments ==
    { [total_score |-> 10 * score,
       confidence |-> [level |-> level, score |-> confidence_score],
       is_rejected |-> is_rejected,
       insights |-> [strengths |-> <<"Strong skills match">>,
                     weaknesses |-> <<>>,
                     red_flags |-> Flags(DictRedFlag, n)]] :
        score \in RecScores, level \in {"high", "medium", "low"},
        confidence_score \in {55, 85}, is_rejected \in BOOLEAN, n \in 0..MaxRedFlags }

\* assessments as test_smart_recommendations and test_low_growth_scenario
\* write them
FlatAssessments ==
    { [overall_score |-> 10 * score,
       confidence_score |-> confidence_score,
       weak_sections |-> <<"salary_expectations", "specific_domain_knowledge">>,
       strong_sections |-> strong,
       red_flags |-> Flags(StringRedFlag, n),
       insights |-> IF strong = <<>> THEN <<>>
                    ELSE <<"Strong technical background in ML/AI",
                           "Recent upskilling in cloud technologies",
                           "Excellent educational credentials">>] :
        score \in RecScores, confidence_score \in {6000, 8500},
        strong \in {<<>>, <<"technical_skills", "education">>}, n \in 0..MaxRedFlags }

\* the score of an assessment of either shape, in points
RecScoreOf(shape, assessment_data) ==
    (IF shape = "flat" THEN assessment_data.overall_score ELSE assessment_data.total_score)
        \div 10

InitRec ==
    /\ \E shape \in {"nested", "flat"} :
           \E assessment_data \in (IF shape = "flat" THEN FlatAssessments
                                   ELSE NestedAssessments) :
               \E growth \in {None} \cup
                             {GrowthAnalysis(raw, RecScoreOf(shape, assessment_data)) :
                                  raw \in RawGrowthScores} :
                   rec_in = [shape |-> shape, assessment_data |-> assessment_data,
                             growth |-> growth]
    /\ rec_out = None
    /\ engine_available = TRUE
    /\ EvalIdle
    /\ GrowthIdle
    /\ MatrixIdle
    /\ ValIdle
    /\ CIIdle /\ CacheIdle /\ RankIdle /\ MatchIdle /\ BatchIdle

\* growth_potential_score=result.growth_potential_score, or None
GrowthArgument == IF rec_in.growth = None THEN None ELSE Num(rec_in.growth.growth_potential_score)

GenerateRecommendation ==
    /\ rec_out = None
    /\ rec_in.shape = "nested"
    /\ rec_out' = [k |-> "returned",
                   recommendation |->
                       generate_recommendation(rec_in.assessment_data, GrowthArgument)]
    /\ UNCHANGED rec_in

GenerateRecommendationFlat ==
    /\ rec_out = None
    /\ rec_in.shape = "flat"
    /\ rec_out' = generate_recommendation_flat(rec_in.assessment_data, GrowthArgument)
    /\ UNCHANGED rec_in

NextRec ==
    \/ GenerateRecommendation
           /\ UNCHANGED <<eval_vars, ci_vars, cache_vars, rank_vars, match_vars, batch_vars, val_vars, matrix_vars, growth_vars>>
    \/ GenerateRecommendationFlat
           /\ UNCHANGED <<eval_vars, ci_vars, cache_vars, rank_vars, match_vars, batch_vars, val_vars, matrix_vars, growth_vars>>

SpecRec == InitRec /\ [][NextRec]_vars

\* generate_recommendation has been called
Recommended == rec_out # None

\* C18: generate_recommendation accepts the flat assessment shape of the test
\* script (overall_score, confidence_score on the 0-100 scale, insights as a
\* list, red_flags as a list of plain strings) and returns a recommendation
\* without raising, for every score, growth score and number of red flags.
C18_FlatShapeNeverRaises ==
    (Recommended /\ rec_in.shape = "flat") => rec_out.k = "returned"


\* is_rejected, the number of red flags and the score, in tenths, that
\* generate_recommendation reads from its argument
RecIsRejected == rec_in.shape = "nested" /\ rec_in.assessment_data.is_rejected

RecRedFlagCount ==
    IF rec_in.shape = "flat" THEN Len(rec_in.assessment_data.red_flags)
    ELSE Len(rec_in.assessment_data.insights.red_flags)

RecTotalScore ==
    IF rec_in.shape = "flat" THEN rec_in.assessment_data.overall_score
    ELSE rec_in.assessment_data.total_score

\* generate_recommendation has returned a recommendation
RecReturned == Recommended /\ rec_out.k = "returned"

\* C19 as stated: every returned recommendation for an assessment that is not
\* hard-rejected and has 3 or more red flags has action HOLD_FOR_REVIEW,
\* whatever the score.
C19_ThreeRedFlagsHoldAtAnyScore ==
    (RecReturned /\ ~RecIsRejected /\ RecRedFlagCount >= 3) =>
        rec_out.recommendation.action = "hold_for_review"

\* C19, amended: every returned recommendation for an assessment that is not
\* hard-rejected, has a score of at least 40 and has 3 or more red flags has
\* action HOLD_FOR_REVIEW, whatever the score from 40 up and the growth score.
C19_ThreeRedFlagsHoldFrom40 ==
    (RecReturned /\ ~RecIsRejected /\ RecRedFlagCount >= 3 /\ RecTotalScore >= 400) =>
        rec_out.recommendation.action = "hold_for_review"

\* three red flags hold back a score of 90 with a growth score of 85
C19_Witness ==
    /\ RecReturned /\ ~RecIsRejected
    /\ RecRedFlagCount = 3
    /\ RecTotalScore = 900
    /\ rec_in.growth # None /\ rec_in.growth.growth_potential_score = 850
    /\ rec_out.recommendation.action = "hold_for_review"
    /\ rec_out.recommendation.priority = "low"

\* C20: for a candidate that is not rejected, has fewer than 3 red flags and a
\* score from 65 up to but below 80, and whose growth tier as the analyzer
\* computes it for that score is high_potential, generate_recommendation
\* called with that analysis's growth score returns action SHORTLIST.
C20_HighPotentialIsShortlisted ==
    ( /\ RecReturned /\ ~RecIsRejected /\ RecRedFlagCount < 3
      /\ RecTotalScore >= 650 /\ RecTotalScore < 800
      /\ rec_in.growth # None /\ rec_in.growth.tier = "high_potential" )
    => rec_out.recommendation.action = "shortlist"


\* a returned recommendation for a candidate that is not rejected, has fewer
\* than 3 red flags and a score of 80 or more, with a confidence-interval
\* lower bound of 75 or more or no red flag at all
ExcellentMatch ==
    /\ RecReturned /\ ~RecIsRejected /\ RecRedFlagCount < 3
    /\ RecTotalScore >= 800
    /\ \/ rec_out.recommendation.confidence_interval.lower_bound >= 750
       \/ RecRedFlagCount = 0

ResultWithEngineRecommendation ==
    Returned /\ IsNormal(result) /\ ~IsMock(result) /\ "recommendation" \notin failed

\* 5 x multiplier(level) x (1.5 - score) rounded to one decimal, in tenths,
\* for a confidence score in hundredths
MarginFormula(level, score) ==
    RoundTenths(MarginOf(CONFIDENCE_LEVELS[level].margin_multiplier, 100 * score))

\* C22: in every result of evaluate_candidate from the real scoring path with
\* a working recommendation engine, the margin of error of the confidence
\* interval is 5 x multiplier(confidence.level) x (1.5 - confidence.score)
\* rounded to one decimal, for the confidence the same result reports.
C22_MarginFollowsReportedConfidence ==
    ResultWithEngineRecommendation =>
        result.smart_recommendation.confidence_interval.margin_of_error
            = MarginFormula(result.confidence.level, result.confidence.score)


\* ---- the base score against the reported weight profile ----

\* a result built by STEP 6 of evaluate_candidate whose weights_used is the
\* hard-coded default profile, the one profile whose numbers the service holds
ResultWithDefaultProfile ==
    Returned /\ IsNormal(result) /\ ~IsMock(result) /\ result.weights_used = FallbackWeights

\* the weight a profile gives a section, in hundredths; a section the profile
\* does not name contributes nothing
WeightIn(weights, name) ==
    IF name \in DOMAIN weights THEN weights[name] ELSE 0

\* the sum over the returned section_scores of score x weight, rounded
WeightedByProfile(section_scores, weights) ==
    LET names == <<"personal_details", "experience", "education", "skills", "salary",
                   "cv_analysis">>
    IN  RoundDiv(SumSeq([n \in DOMAIN names |->
                            IF names[n] \in DOMAIN section_scores
                            THEN section_scores[names[n]].score * WeightIn(weights, names[n])
                            ELSE 0]),
                 100)

\* C23: the raw_score of a non-mock, complete-data result is the sum over the
\* returned section_scores of section score x the weight reported in
\* weights_used, rounded to an integer
C23_RawScoreUsesReportedWeights ==
    ResultWithDefaultProfile =>
        result.raw_score = WeightedByProfile(result.section_scores, result.weights_used)


(***************************************************************************)
(* validate_candidate_data called directly (specification SpecValidate)    *)
(***************************************************************************)
MaxHistory == 2         \* entries of an employment_history list

\* the sub-fields the list-path requirements name
HistorySubFields == {"job_title", "company_name", "duration", "responsibilities"}

\* employment_history entries: each sub-field missing, None, blank or filled
\* in every combination of two groups, and an entry that is not a dict
HistoryEntries ==
    { Dict([job_title |-> t, company_name |-> c, duration |-> d, responsibilities |-> d]) :
        t \in {Absent, Str(""), Str("Logistics Manager")},
        c \in {None, Str("Gulf Freight")},
        d \in {Absent, Str("2 years")} }
    \cup {WorkEntry, Str("Logistics Manager at Gulf Freight")}

HistoryLists ==
    UNION { [1..n -> HistoryEntries] : n \in 0..MaxHistory }

ValidatorCandidates ==
    { [BaseCandidate EXCEPT !.employment_history = h] :
        h \in {Absent, None} \cup { List(items) : items \in HistoryLists } }

InitValidate ==
    /\ engine_available = TRUE
    /\ EvalIdle
    /\ GrowthIdle
    /\ MatrixIdle
    /\ RecIdle /\ BatchIdle /\ MatchIdle /\ CIIdle /\ CacheIdle /\ RankIdle
    /\ val_in \in ValidatorCandidates
    /\ val_out = None

\* DataCompletenessValidator.validate_candidate_data(candidate_data)
ValidateCandidateData ==
    /\ val_out = None
    /\ val_out' = validate_candidate_data(val_in)
    /\ UNCHANGED val_in

NextValidate ==
    \/ ValidateCandidateData
         /\ UNCHANGED <<eval_vars, ci_vars, cache_vars, rank_vars, match_vars, batch_vars, rec_vars, matrix_vars, growth_vars>>

SpecValidate == InitValidate /\ [][NextValidate]_vars

\* an element of the list carries a meaningful value for the sub-field
CarriesSubField(item, sub) ==
    /\ item.k = "dict"
    /\ sub \in DOMAIN item.d
    /\ item.d[sub].k = "str"
    /\ item.d[sub].s \notin BlankStrings

\* the requirement with the given path is among those reported missing
ReportedMissing(out, path) ==
    \E n \in DOMAIN CANDIDATE_REQUIREMENTS :
        /\ CANDIDATE_REQUIREMENTS[n].field_path = path
        /\ \E m \in DOMAIN out.important_missing :
               out.important_missing[m] = MissingMessage(CANDIDATE_REQUIREMENTS[n])

\* C24: a requirement whose path descends into employment_history is counted
\* present only if some element of the list has a meaningful value for the
\* sub-field; otherwise it is reported missing
C24_ListPathNeedsQualifyingElement ==
    (val_out # None /\ val_in.employment_history.k = "list") =>
        \A sub \in HistorySubFields :
            ReportedMissing(val_out, <<"employment_history", sub>>)
                <=> ~ \E n \in DOMAIN val_in.employment_history.items :
                          CarriesSubField(val_in.employment_history.items[n], sub)


(***************************************************************************)
(* SkillMatcher._get_skill_embedding in sequential use (specification      *)
(* SpecCacheSeq): one caller, each call runs to completion before the next *)
(***************************************************************************)
InitCacheSeq == InitCache

\* one whole call: the None-model return, the first locked block (hit, or
\* eviction when full), encode, and the second locked block (store); the
\* caller's record keeps the key of the call
GetSkillEmbedding(key) ==
    /\ \A t \in Threads : threads[t].pc = "idle"
    /\ cache' = IF embedding_model = "none" \/ key \in Range(cache)
                THEN cache
                ELSE Append(IF Len(cache) >= MAX_EMBEDDING_CACHE_SIZE
                            THEN Evicted(cache, MAX_EMBEDDING_CACHE_SIZE \div 10)
                            ELSE cache,
                            key)
    /\ threads' = [threads EXCEPT ![1] = [pc |-> "idle", key |-> key]]
    /\ next_key' = IF key = next_key THEN next_key + 1 ELSE next_key
    /\ UNCHANGED embedding_model

\* the skills asked for: one whose embedding is cached, a new one, or the
\* first one ever asked for (cached or evicted by now)
RequestedKeys == (Range(cache) \cup {1, next_key}) \cap (1..MaxKeys)

NextCacheSeq ==
    \E key \in RequestedKeys :
        GetSkillEmbedding(key)
          /\ UNCHANGED <<eval_vars, ci_vars, rank_vars, match_vars, batch_vars, rec_vars, val_vars, matrix_vars, growth_vars>>

SpecCacheSeq == InitCacheSeq /\ [][NextCacheSeq]_vars


RECURSIVE SumOfCounts(_, _)
SumOfCounts(distribution, buckets) ==
    IF buckets = {} THEN 0
    ELSE LET b == CHOOSE x \in buckets : TRUE
         IN  distribution[b] + SumOfCounts(distribution, buckets \ {b})

MatrixOfRankedCandidates ==
    comparison # None /\ Len(ranked.items) > 0

\* C26: for a non-empty ranked list the counts of the tier distribution and
\* the counts of the interview-priority distribution each sum to
\* total_candidates
C26_DistributionsSumToTotal ==
    MatrixOfRankedCandidates =>
        /\ SumOfCounts(comparison.tier_distribution, DOMAIN comparison.tier_distribution)
               = comparison.total_candidates
        /\ SumOfCounts(comparison.interview_priorities, DOMAIN comparison.interview_priorities)
               = comparison.total_candidates


\* ---- rejected results and their recommendation ----

\* a returned result that is rejected and carries a smart_recommendation
RejectedWithRecommendation ==
    /\ Returned
    /\ "is_rejected" \in DOMAIN result /\ result.is_rejected
    /\ "smart_recommendation" \in DOMAIN result

\* C27: a result with is_rejected true that contains a smart_recommendation
\* has action 'reject' and priority 'none', the engine's recommendation and
\* the substituted fallback payload alike
C27_RejectedResultRecommendsReject ==
    RejectedWithRecommendation =>
        /\ result.smart_recommendation.action = "reject"
        /\ result.smart_recommendation.priority = "none"


(***************************************************************************)
(* The pipeline's critical red flags in the ranker (specification SpecRank)*)
(***************************************************************************)
\* the severities the pipeline writes on a critical flag: the value of
\* RedFlagSeverity.CRITICAL, and the literal of the DATA_INCOMPLETE result
EmittedCriticalSeverities == {Str("critical"), Str("CRITICAL")}

\* the number of flags of the candidate at a rank emitted with critical severity
EmittedCriticalCount(n) ==
    Len(SelectSeq(RedFlagsAt(n),
                  LAMBDA f : Get(f.d, "severity") \in EmittedCriticalSeverities))

\* the overall-score composite before the red-flag penalty, in tenths
UnpenalisedOverall(n) ==
    LET candidate == candidates[ranked.items[n].candidate_id]
        assessment == Sub(candidate, "assessment")
        insights == Sub(candidate, "insights")
    IN  10 * NumberAt(assessment, "total_score")
            + (NumberAt(insights, "cultural_fit_score") - 70)
            + (NumberAt(insights, "learning_potential") - 70)

\* C28: every red flag the pipeline emits with critical severity is counted
\* in critical_red_flags, costs 15 points of the overall composite score, and
\* forces interview_priority 'do_not_interview'
C28_EmittedCriticalFlagsAreRecognised ==
    ranked # None =>
        \A n \in DOMAIN ranked.items :
            /\ ranked.items[n].critical_red_flags = EmittedCriticalCount(n)
            /\ EmittedCriticalCount(n) > 0 =>
                   ranked.items[n].interview_priority = "do_not_interview"
            /\ ranking_criteria = "overall_score" =>
                   CompositeAt(n) = UnpenalisedOverall(n) - 150 * EmittedCriticalCount(n)
                                        - 50 * SeverityCount(RedFlagsAt(n), "high")


(***************************************************************************)
(* Red flags and the favourability of the action (specification SpecRec)   *)
(***************************************************************************)
\* the action generate_recommendation returns for the same assessment and
\* growth score with n red flags
ActionWithRedFlags(n) ==
    generate_recommendation([rec_in.assessment_data EXCEPT
                                 !.insights.red_flags = Flags(DictRedFlag, n)],
                            GrowthArgument).action

\* C29: with score, confidence level, confidence score, rejection status and
\* growth score fixed, an assessment whose action is REJECT keeps action
\* REJECT with any larger number of red flags
C29_MoreRedFlagsNeverUndoReject ==
    (RecReturned /\ rec_in.shape = "nested" /\ rec_out.recommendation.action = "reject") =>
        \A n \in (RecRedFlagCount + 1)..MaxRedFlags : ActionWithRedFlags(n) = "reject"


(***************************************************************************)
(* GrowthPotentialAnalyzer.analyze called directly (specification          *)
(* SpecGrowth).  Scores of the analysis are in tenths of a point.          *)
(***************************************************************************)
RecentPremiumCert ==
    Dict([certification_name |-> Str("aws"), issue_date |-> Str("2024")])

IndustryEntry(industry) ==
    Dict([job_title |-> Str("Logistics Manager"), industry |-> Str(industry)])

ElevenFunctionalSkills ==
    List(<<Str("leadership"), Str("communication"), Str("teamwork"), Str("analytical"),
           Str("sap"), Str("oracle"), Str("tableau"), Str("power bi"), Str("excel"),
           Str("mysql"), Str("python")>>)

\* what each of the five assessments reads, from nothing to everything it rewards
SkillLevels ==
    {[skills |-> Absent, it_skills |-> Absent],
     [skills |-> ThreeSkills, it_skills |-> EightItSkills],
     [skills |-> EightItSkills, it_skills |-> EightItSkills]}

CertificationLevels ==
    {Absent, List(<<Str("pmp")>>),
     List(<<RecentPremiumCert, RecentPremiumCert, RecentPremiumCert,
            RecentPremiumCert, RecentPremiumCert>>)}

\* an education_level of None makes .lower() raise
EducationLevels ==
    {[level |-> Absent, details |-> Absent, specialization |-> Absent],
     [level |-> Str("Bachelors"), details |-> List(<<EducationEntry>>),
      specialization |-> Absent],
     [level |-> Str("Masters"), details |-> List(<<EducationEntry, EducationEntry>>),
      specialization |-> Str("Logistics")],
     [level |-> None, details |-> Absent, specialization |-> Absent]}

CareerLevels ==
    {[years |-> Num(0), gcc |-> Num(0), history |-> Absent, designation |-> Absent],
     [years |-> Num(5), gcc |-> Num(3), history |-> List(<<WorkEntry, WorkEntry>>),
      designation |-> Str("Manager")],
     [years |-> Num(12), gcc |-> Num(12),
      history |-> List(<<IndustryEntry("Logistics"), IndustryEntry("Operations"),
                         IndustryEntry("logistics")>>),
      designation |-> Str("Manager")]}

AdaptabilityLevels ==
    {[professional |-> Absent, languages |-> Absent],
     [professional |-> ElevenFunctionalSkills, languages |-> Str("English, Arabic, Hindi")]}

GrowthCandidates ==
    { [skills |-> s.skills, it_skills |-> s.it_skills, certifications |-> ce,
       education_level |-> e.level, education_details |-> e.details,
       specialization |-> e.specialization,
       total_experience_years |-> t.years, gcc_experience_years |-> t.gcc,
       employment_history |-> t.history, preferred_designation |-> t.designation,
       professional_skills |-> a.professional, functional_skills |-> Absent,
       languages_known |-> a.languages] :
        s \in SkillLevels, ce \in CertificationLevels, e \in EducationLevels,
        t \in CareerLevels, a \in AdaptabilityLevels }

GrowthJobs == {[required_education |-> r] : r \in {Absent, Str("Bachelors")}}

\* current fit scores on both sides of the hidden-gem limit of 70
CurrentScores == {0, 40, 69, 70, 90}

InitGrowth ==
    /\ growth_in \in [candidate_data : GrowthCandidates, job_data : GrowthJobs,
                      current_assessment_score : CurrentScores]
    /\ growth_out = None
    /\ engine_available = TRUE
    /\ EvalIdle
    /\ MatrixIdle /\ ValIdle /\ RecIdle /\ BatchIdle /\ MatchIdle
    /\ CIIdle /\ CacheIdle /\ RankIdle

\* analyzer.analyze(candidate_data, job_data, current_assessment_score)
AnalyzeGrowth ==
    /\ growth_out = None
    /\ growth_out' =
           IF GrowthRaises(growth_in.candidate_data, growth_in.job_data)
           THEN [k |-> "raised", exception |-> "AttributeError"]
           ELSE [k |-> "returned",
                 growth |-> analyze(growth_in.candidate_data, growth_in.job_data,
                                    growth_in.current_assessment_score, 0)]
    /\ UNCHANGED growth_in

NextGrowth ==
    \/ AnalyzeGrowth
         /\ UNCHANGED <<eval_vars, ci_vars, cache_vars, rank_vars, match_vars, batch_vars, rec_vars, val_vars, matrix_vars>>

SpecGrowth == InitGrowth /\ [][NextGrowth]_vars

\* the five sub-scores of the analysis of the given arguments
GrowthSubScores ==
    {_assess_skill_acquisition_rate(growth_in.candidate_data, 0).score,
     _assess_education_investment(growth_in.candidate_data, growth_in.job_data).score,
     _assess_career_trajectory(growth_in.candidate_data).score,
     _assess_certifications_currency(growth_in.candidate_data).score,
     _assess_industry_adaptability(growth_in.candidate_data).score}

GrowthReturned == growth_out # None /\ growth_out.k = "returned"

=============================================================================
